---- MODULE Spec2Model ----
(***************************************************************************)
(* Queue orchestrator of youtube_downloader.py: the ordered download queue, *)
(* the background worker (download_worker), the run_ytdlp thread and the   *)
(* cancellation monitor it starts per item, the Tk event queue that        *)
(* carries root.after(0, ...) callbacks to the GUI thread, and the         *)
(* handlers start_download, stop_download, move_to_top, reset_selected,    *)
(* on_closing / load_settings and add_videos_to_gui.                       *)
(*                                                                         *)
(* start_download and stop_download are the commands of the start and the  *)
(* stop button: they run when the GUI thread is free and their button is   *)
(* enabled, which update_button_states decides.  Worker, run_ytdlp,        *)
(* monitor and _reset_worker are threads whose steps interleave with the   *)
(* GUI thread's.                                                           *)
(***************************************************************************)
EXTENDS Integers, Sequences, FiniteSets, TLC

\* ----- bounds of the model ------------------------------------------------
MaxItems == 2      \* videos in the queue of the orchestrator specification
MaxAfter == 1      \* callbacks waiting in the Tk event queue
MaxOrphans == 1    \* abandoned run_ytdlp threads still alive
MaxVideos == 5     \* video objects of the enqueue specification
MaxCalls == 2      \* add_videos_to_gui callbacks scheduled in the enqueue specification
ChunkSize == 1     \* chunk_size of _insert_videos_chunked, scaled down from 300
MaxProbes == 1     \* detection threads of one kind running at a time
MaxRun == 1        \* videos in the queue of the fair specification
MaxMove == 4       \* videos in the queue whose selection is moved to the top
MaxCallers == 2    \* add_url calls that may name the same URL
MaxUrls == 6       \* add_url calls with a URL of their own

Items == 1..MaxItems

NoItem == 0

\* video objects the extraction threads hand to add_videos_to_gui
Videos == 1..MaxVideos

\* the 'id' of a video object without an id
NoId == 0

\* video.get('id'): objects 1 and 3 carry the same id, object 2 another one,
\* the remaining objects none
VideoId(v) ==
    CASE v = 1 -> 1
      [] v = 2 -> 2
      [] v = 3 -> 1
      [] OTHER -> NoId

\* video.get('url'): the id-less objects 4 and 5 have different URLs, and
\* object 4 has the URL of object 2
VideoUrl(v) == (v % 2) + 1

\* largest batch handed to add_videos_to_gui: one item more than a chunk
MaxBatch == ChunkSize + 1

\* ----- status and quality vocabulary -------------------------------------
Statuses == {"Pending", "Downloading", "Done", "Failed", "Skipped",
             "QualityBlocked", "AgeRestricted"}

\* statuses the worker loop skips
SkippedByWorker == {"Done", "Failed", "Skipped"}

\* statuses reset_selected accepts
Resetable == {"Done", "Failed", "Skipped", "QualityBlocked", "AgeRestricted"}

\* the failures the extraction port answers a fetch with, by the class
\* classify_download_error puts them in: HTTP 403, age restriction, other
PortErrors == {"e403", "eage", "eother"}

\* the video heights a format list of the extraction port can hold
Heights == {144, 240, 360, 480, 720, 1080, 1440, 2160}

\* quality_options of the quality menu, best first
QualityOptions == <<"Best", "2160p (4K)", "1440p (2K)", "1080p", "720p", "480p",
                    "360p", "240p", "144p", "Lowest">>

\* quality the items of the orchestrator specification are added with
InitQuality == "360p"

VARIABLES
    download_queue,     \* self.download_queue: sequence of video objects
    status,             \* video['status'] of every video object
    quality,            \* video['quality'] of every video object
    heights,            \* heights of the video formats the port reports for a video
    has_info,           \* the video object has an 'info' entry
    requested,          \* quality selected in the menu for the video that is added
    watched,            \* the item whose access-denied failures are recorded
    denied_at,          \* history: qualities at which a fetch of the watched item was denied
    artifact,           \* history: the file of the fetch as the validation met it, until the GUI shows a status
    sabr_mode_active,   \* self.sabr_mode_active
    sabr_checked,       \* self.last_sabr_check is less than an hour old
    probes,             \* running detection threads, by the handler that gets their result
    last_transition,    \* history: the last change of sabr_mode_active in this process
    before_activation,  \* history: the qualities of the queue before the last activation
    settings_sabr_active, \* 'active' of 'sabr_mode' in the settings file
    console_indicator,  \* the text of the console widget holds a SABR indicator
    text_only,          \* history: a detection has reported SABR from the console text alone
    quality_menu,       \* the entries of self.quality_menu
    audio_format_menu,  \* the entries of self.audio_format_menu
    ffmpeg_installed,   \* "ffmpeg -version" succeeds on this machine
    videos_to_move,     \* move_to_top: the video popped from the queue and not yet inserted
    tree_children,      \* self.tree.get_children(): the rows of the tree view in order
    selected_items,     \* self.tree.selection(): the selected rows in the order of the tree
    fetches,            \* history: times the worker has taken a video for a fetch, 2 for more
    url_threads,        \* position and cache_key of every _process_url_with_cache thread
    info_cache,         \* keys of self.info_cache
    cache_expiry,       \* keys whose time in self.cache_expiry has not passed
    extraction_locks,   \* keys of self.extraction_locks
    in_progress_seen,   \* history: threads that returned on "Extraction already in progress"
    served,             \* history: threads that scheduled add_videos_to_gui
    auto_probes,        \* history: automatic detections started within the hour, 2 for more than one
    is_downloading,     \* self.is_downloading
    start_button,       \* self.start_button is enabled
    stop_button,        \* self.stop_button is enabled
    stop_event,         \* self.stop_event
    cur_cancelled,      \* self._current_download_cancelled
    afterQ,             \* callbacks scheduled with root.after(0, ...), FIFO
    wpc,                \* position of the download_worker thread
    windex,             \* current_index of download_worker
    wcur,               \* current_downloading_video of download_worker
    exc,                \* exception travelling to the worker's except clause
    was_stopped,        \* was_stopped of the worker that exited last
    workers,            \* download_worker threads before "is_downloading = False"
    tails,              \* workers between "is_downloading = False" and "stop_event.clear()"
    ytdlp,              \* position of the run_ytdlp thread of the current item
    download_result,    \* download_result of the current item
    download_cancelled, \* the download_cancelled event of the current item
    monitor,            \* cancellation_monitor thread of the current item is alive
    alive,              \* run_ytdlp threads alive that no worker has abandoned
    orphans,            \* run_ytdlp threads alive that were abandoned by the forced timeout
    resetting,          \* items a _reset_worker thread is working on
    calls,              \* add_videos_to_gui callbacks scheduled so far
    enqueued,           \* history: the batch of the last add_videos_to_gui call
    observed,           \* history: item during whose processing the worker saw the stop signal
    produced            \* history: item whose fetch had succeeded when the worker found the stop signal set

vars == <<download_queue, status, quality, heights, has_info, requested,
          watched, denied_at, artifact,
          sabr_mode_active, sabr_checked, probes, last_transition,
          before_activation, auto_probes, settings_sabr_active,
          console_indicator, text_only,
          quality_menu, audio_format_menu, ffmpeg_installed,
          videos_to_move, tree_children, selected_items, fetches, url_threads, info_cache, cache_expiry, extraction_locks,
          in_progress_seen, served,
          is_downloading, start_button,
          stop_button, stop_event,
          cur_cancelled, afterQ, wpc, windex, wcur, exc, was_stopped, workers,
          tails, ytdlp, download_result, download_cancelled, monitor, alive,
          orphans, resetting, calls, enqueued, observed, produced>>

\* ----- pure helpers --------------------------------------------------------

\* a fallback table with a single step
QualityFallbackOnce(q) ==
    CASE q = "Audio-best" -> "Audio-default"
      [] q = "Best"       -> "1080p"
      [] q = "1080p"      -> "720p"
      [] OTHER            -> "none"

\* a fallback table whose last video entry leads back to the top
QualityFallbackCycle(q) ==
    CASE q = "Audio-best" -> "Audio-default"
      [] q = "Best"       -> "1080p"
      [] q = "1080p"      -> "720p"
      [] q = "720p"       -> "480p"
      [] q = "480p"       -> "360p"
      [] q = "360p"       -> "Best"
      [] OTHER            -> "none"

\* auto_retry_with_different_quality: the fallback tables
QualityFallback(q) ==
    CASE q = "Audio-best" -> "Audio-default"
      [] q = "Best"       -> "1080p"
      [] q = "1080p"      -> "720p"
      [] q = "720p"       -> "480p"
      [] q = "480p"       -> "360p"
      [] q = "360p"       -> "Audio-default"
      [] OTHER            -> "none"

\* check_and_adjust_single_video_quality: quality_to_height.get(q, 1080)
QualityToHeight(q) ==
    CASE q = "1080p" -> 1080
      [] q = "720p"  -> 720
      [] q = "480p"  -> 480
      [] q = "360p"  -> 360
      [] OTHER       -> 1080

SetMin(S) == CHOOSE x \in S : \A y \in S : x <= y

SetMax(S) == CHOOSE x \in S : \A y \in S : x >= y

\* check_and_adjust_single_video_quality: the height converted back
HeightToQuality(h) ==
    IF h >= 1440 THEN "Best"
    ELSE IF h >= 1080 THEN "1080p"
    ELSE IF h >= 720 THEN "720p"
    ELSE IF h >= 480 THEN "480p"
    ELSE "360p"

\* check_and_adjust_single_video_quality: the lowest available height at or
\* above the requested one, else the highest available height
BestHeight(available_heights, requested_height) ==
    LET suitable_heights == {h \in available_heights : h >= requested_height} IN
    IF suitable_heights # {} THEN SetMin(suitable_heights)
    ELSE SetMax(available_heights)

\* check_and_adjust_single_video_quality(video_info, requested_quality), for
\* a format list with the video heights available_heights
CheckAndAdjust(available_heights, requested_quality) ==
    IF available_heights = {} \/ requested_quality = "Best"
    THEN requested_quality
    ELSE HeightToQuality(BestHeight(available_heights,
                                    QualityToHeight(requested_quality)))

IsAudio(q) == q \in {"Audio-best", "Audio-default", "Audio-standard_mp3",
                      "Audio-high_m4a"}

\* what the download directory holds under a name: no file, a file of 0
\* bytes, a file with content
FileStates == {"missing", "empty", "full"}

\* validate_downloaded_file: the file of the fetch is looked up under the
\* names made of the title; when none of them exists, a media file that
\* shares a word with the title is taken; the file found must not be empty
ValidateDownloadedFile(produced_file, similar_file) ==
    LET downloaded_file == IF produced_file # "missing" THEN produced_file
                           ELSE similar_file
    IN  downloaded_file = "full"

\* a classification without the age restriction phrases
ClassifyStatusWithoutAge(e, q) ==
    CASE e = "e403" -> IF QualityFallback(q) # "none" THEN "Pending" ELSE "QualityBlocked"
      [] OTHER      -> "Failed"

\* classify_download_error: status returned for an error kind at quality q
ClassifyStatus(e, q) ==
    CASE e = "e403" -> IF QualityFallback(q) # "none" THEN "Pending" ELSE "QualityBlocked"
      [] e = "eage" -> "AgeRestricted"
      [] OTHER      -> "Failed"

\* classify_download_error: the quality the item has afterwards
ClassifyQuality(e, q) ==
    IF e = "e403" /\ QualityFallback(q) # "none" THEN QualityFallback(q) ELSE q

\* root.after(0, self.update_video_status, item_id, st)
StatusEvent(i, st) == [kind |-> "status", item |-> i, st |-> st]

\* root.after(0, lambda id=item_id: self.update_video_status(id, 'Pending'))
\* of _reset_worker
ResetEvent(i) == [kind |-> "status", item |-> i, st |-> "Pending", reset |-> TRUE]

\* the callback was scheduled by _reset_worker
IsResetEvent(e) == "reset" \in DOMAIN e

\* root.after(0, self.update_button_states)
ButtonsEvent == [kind |-> "buttons", item |-> NoItem, st |-> "none"]

\* a start button that is never disabled
StartButtonAlwaysEnabled(downloading) == TRUE

\* update_button_states: the state given to the start button
StartButtonEnabled(downloading) == ~downloading

\* update_button_states: the state given to the stop button
StopButtonEnabled(downloading) == downloading

QueueItems == {download_queue[k] : k \in 1..Len(download_queue)}

InQueue(i) == i \in QueueItems

\* pending_videos of start_download
PendingVideos == {i \in QueueItems : status[i] = "Pending"}

\* the queue items whose status is Downloading
DownloadingItems == {i \in QueueItems : status[i] = "Downloading"}

\* the handlers a detection thread hands its result to
ProbeKinds == {"detection", "recheck"}

\* root.after(0, handler, is_sabr_detected, ...) of a detection thread, and
\* root.after(0, self.app.activate_sabr_from_warning, msg) of the logger
SabrEvent(handler, is_sabr_detected) ==
    [kind |-> handler, detected |-> is_sabr_detected]

\* a queue update that leaves every quality as it is
SabrQualityKept(q) == q

\* update_queue_for_sabr_mode: the quality of an item that is not skipped
SabrQuality(q) ==
    IF ~IsAudio(q) /\ q # "360p" THEN "360p"
    ELSE IF IsAudio(q) /\ q \notin {"Audio-standard_mp3", "Audio-high_m4a"}
         THEN "Audio-standard_mp3"
         ELSE q

\* update_queue_for_sabr_mode: the qualities of the queue afterwards
UpdateQueueForSabr ==
    [i \in Items |-> IF InQueue(i) /\ status[i] \notin {"Done", "Failed"}
                     THEN SabrQuality(quality[i])
                     ELSE quality[i]]

\* a start that restores the saved SABR mode
LoadedSabrModeRestored(saved_active) == saved_active

\* load_settings: self.sabr_mode_active for the saved 'active'
LoadedSabrMode(saved_active) == FALSE

\* detect_sabr_mode: SABR is reported when check_recent_warnings_for_sabr
\* finds an indicator in the text of the console, without a probe; else
\* when the probe of the web client gives a SABR warning or no HTTPS format
\* with a direct URL
DetectSabrMode(recent_sabr_detected, sabr_warnings, https_formats) ==
    IF recent_sabr_detected THEN TRUE
    ELSE sabr_warnings \/ ~https_formats

\* self.original_quality_options, the entries of the quality menu
original_quality_options ==
    {"Best", "2160p (4K)", "1440p (2K)", "1080p", "720p", "480p", "360p",
     "240p", "144p", "Lowest"}

\* self.original_audio_options, the entries of the audio format menu
original_audio_options ==
    {"default (Auto)", "best (Highest Quality)", "lowest (Smallest Size)",
     "low_webm (~48kbps Opus)", "medium_webm (~70kbps Opus)",
     "standard_webm (~128kbps Opus)", "standard_m4a (~128kbps AAC)",
     "standard_mp3 (~192kbps MP3)", "high_m4a (~160kbps AAC)"}

\* self.sabr_quality_options
sabr_quality_options == {"360p"}

\* self.sabr_audio_options
sabr_audio_options == {"standard_mp3 (~192kbps MP3)", "high_m4a (~160kbps AAC)"}

\* check_ffmpeg_availability: the entries of the audio format menu after the
\* call; without FFmpeg the menu is rebuilt from the native formats
CheckFfmpegAvailability(menu, ffmpeg_found) ==
    IF ffmpeg_found THEN menu
    ELSE original_audio_options \ {"standard_mp3 (~192kbps MP3)"}

\* the _process_url_with_cache threads that add_url may start
UrlThreads == 1..MaxUrls

\* a thread that add_url has not started
IdleThread == [pc |-> "idle", cache_key |-> <<>>]

\* _process_url_with_cache: cache_key = f"{url}_{quality}"
CacheKey(url, q) == <<url, q>>

\* a second caller that asks the cache again instead of returning
LocksStepRetry(extraction_in_progress) ==
    IF extraction_in_progress THEN "cache" ELSE "lock"

\* _process_url_with_cache: where a thread goes from the test of
\* self.extraction_locks: it returns when the key is there
LocksStep(extraction_in_progress) ==
    IF extraction_in_progress THEN "done" ELSE "lock"

\* ----- construction ---------------------------------------------------------

\* YouTubeDownloaderApp.__init__: no thread runs and no callback waits, SABR
\* mode is off, the menus are built and check_ffmpeg_availability has run,
\* and the last detection is less than an hour old
InitApp(ffmpeg_found) ==
    /\ ffmpeg_installed = ffmpeg_found
    /\ quality_menu = original_quality_options
    /\ audio_format_menu = CheckFfmpegAvailability(original_audio_options, ffmpeg_found)
    /\ videos_to_move = NoItem
    /\ fetches = [i \in Items |-> 0]
    /\ tree_children = download_queue
    /\ selected_items = <<>>
    /\ url_threads = [t \in UrlThreads |-> IdleThread]
    /\ info_cache = {}
    /\ cache_expiry = {}
    /\ extraction_locks = {}
    /\ in_progress_seen = {}
    /\ served = {}
    /\ sabr_mode_active = FALSE
    /\ sabr_checked = TRUE
    /\ probes = [k \in ProbeKinds |-> 0]
    /\ last_transition = "none"
    /\ before_activation = [i \in Items |-> "none"]
    /\ auto_probes = 0
    /\ console_indicator = FALSE
    /\ text_only = FALSE
    /\ settings_sabr_active = FALSE
    /\ is_downloading = FALSE
    /\ start_button = TRUE
    /\ stop_button = FALSE
    /\ stop_event = FALSE
    /\ cur_cancelled = FALSE
    /\ afterQ = <<>>
    /\ wpc = "none"
    /\ windex = 0
    /\ wcur = NoItem
    /\ exc = "none"
    /\ was_stopped = "unset"
    /\ workers = 0
    /\ tails = 0
    /\ ytdlp = "none"
    /\ download_result = "unset"
    /\ download_cancelled = FALSE
    /\ monitor = FALSE
    /\ alive = 0
    /\ orphans = 0
    /\ resetting = {}
    /\ calls = 0
    /\ enqueued = <<>>
    /\ observed = NoItem
    /\ produced = NoItem

\* a machine on which FFmpeg is installed
InitIdle == InitApp(TRUE)

\* YouTubeDownloaderApp.__init__, first launch: a queue of pending videos
InitState ==
    /\ status = [i \in Items |-> "Pending"]
    /\ InitIdle

\* the orchestrator is studied from a loaded queue of pending videos for
\* which the port reports the one height of their quality
Init ==
    /\ download_queue = [k \in 1..MaxItems |-> k]
    /\ quality = [i \in Items |-> InitQuality]
    /\ heights = [i \in Items |-> {QualityToHeight(InitQuality)}]
    /\ has_info = [i \in Items |-> FALSE]
    /\ requested = "none"
    /\ watched = NoItem
    /\ denied_at = {}
    /\ artifact = "none"
    /\ InitState

\* the enqueue operation is studied from the empty queue of a first launch
InitEnqueue ==
    /\ download_queue = <<>>
    /\ quality = [i \in Items |-> InitQuality]
    /\ heights = [i \in Items |-> {QualityToHeight(InitQuality)}]
    /\ has_info = [i \in Items |-> FALSE]
    /\ requested = "none"
    /\ watched = NoItem
    /\ denied_at = {}
    /\ artifact = "none"
    /\ InitState

\* ----- GUI thread: handlers ---------------------------------------------------

\* the early returns of start_download without the one for "no pending video"
StartGuardNoPendingCheck ==
    /\ Len(download_queue) > 0
    /\ ~is_downloading

\* start_download: the three early returns
StartGuard ==
    /\ Len(download_queue) > 0
    /\ PendingVideos # {}
    /\ ~is_downloading

\* start_download, the command of the start button: a call that passes the
\* early returns sets the flags, updates the buttons and creates the worker
\* thread; any other call returns without changing anything
start_download ==
    /\ start_button
    /\ StartGuard
    /\ is_downloading' = TRUE
    /\ start_button' = StartButtonEnabled(TRUE)
    /\ stop_button' = StopButtonEnabled(TRUE)
    /\ stop_event' = FALSE
    /\ workers' = workers + 1
    /\ wpc' = "begin"
    /\ windex' = 0
    /\ wcur' = NoItem
    /\ exc' = "none"
    /\ was_stopped' = "unset"
    /\ observed' = NoItem
    /\ produced' = NoItem
    /\ UNCHANGED <<download_queue, status, quality, heights, has_info,
                   requested, watched, denied_at, artifact, sabr_mode_active,
                   sabr_checked, probes, last_transition, before_activation,
                   settings_sabr_active, console_indicator, text_only,
                   quality_menu, audio_format_menu, ffmpeg_installed,
                   videos_to_move, tree_children, selected_items, fetches,
                   url_threads, info_cache, cache_expiry, extraction_locks,
                   in_progress_seen, served, auto_probes, cur_cancelled,
                   afterQ, tails, ytdlp, download_result, download_cancelled,
                   monitor, alive, orphans, resetting, calls, enqueued>>

\* stop_download, the command of the stop button: returns without changing
\* anything unless a run is active
stop_download ==
    /\ stop_button
    /\ is_downloading
    /\ cur_cancelled' = TRUE
    /\ stop_event' = TRUE
    /\ UNCHANGED <<download_queue, status, quality, heights, has_info,
                   requested, watched, denied_at, artifact, sabr_mode_active,
                   sabr_checked, probes, last_transition, before_activation,
                   settings_sabr_active, console_indicator, text_only,
                   quality_menu, audio_format_menu, ffmpeg_installed,
                   videos_to_move, tree_children, selected_items, fetches,
                   url_threads, info_cache, cache_expiry, extraction_locks,
                   in_progress_seen, served, auto_probes, is_downloading,
                   start_button, stop_button, afterQ, wpc, windex, wcur, exc,
                   was_stopped, workers, tails, ytdlp, download_result,
                   download_cancelled, monitor, alive, orphans, resetting,
                   calls, enqueued, observed, produced>>

\* the queue with item i moved to the front
MovedToTop(q, i) == <<i>> \o SelectSeq(q, LAMBDA x : x # i)

\* move_to_top with one selected item
move_to_top(i) ==
    /\ InQueue(i)
    /\ download_queue[1] # i
    /\ download_queue' = MovedToTop(download_queue, i)
    /\ UNCHANGED <<status, quality, heights, has_info, requested, watched,
                   denied_at, artifact, sabr_mode_active, sabr_checked,
                   probes, last_transition, before_activation,
                   settings_sabr_active, console_indicator, text_only,
                   quality_menu, audio_format_menu, ffmpeg_installed,
                   videos_to_move, tree_children, selected_items, fetches,
                   url_threads, info_cache, cache_expiry, extraction_locks,
                   in_progress_seen, served, auto_probes, is_downloading,
                   start_button, stop_button, stop_event, cur_cancelled,
                   afterQ, wpc, windex, wcur, exc, was_stopped, workers,
                   tails, ytdlp, download_result, download_cancelled, monitor,
                   alive, orphans, resetting, calls, enqueued, observed,
                   produced>>

\* reset_selected with one selected item: starts a _reset_worker thread
reset_selected(i) ==
    /\ InQueue(i)
    /\ status[i] \in Resetable
    /\ i \notin resetting
    /\ resetting' = resetting \cup {i}
    /\ UNCHANGED <<download_queue, status, quality, heights, has_info,
                   requested, watched, denied_at, artifact, sabr_mode_active,
                   sabr_checked, probes, last_transition, before_activation,
                   settings_sabr_active, console_indicator, text_only,
                   quality_menu, audio_format_menu, ffmpeg_installed,
                   videos_to_move, tree_children, selected_items, fetches,
                   url_threads, info_cache, cache_expiry, extraction_locks,
                   in_progress_seen, served, auto_probes, is_downloading,
                   start_button, stop_button, stop_event, cur_cancelled,
                   afterQ, wpc, windex, wcur, exc, was_stopped, workers,
                   tails, ytdlp, download_result, download_cancelled, monitor,
                   alive, orphans, calls, enqueued, observed, produced>>

\* _reset_worker: schedules update_video_status(item, 'Pending') on the GUI thread
reset_worker(i) ==
    /\ i \in resetting
    /\ Len(afterQ) < MaxAfter
    /\ resetting' = resetting \ {i}
    /\ afterQ' = Append(afterQ, ResetEvent(i))
    /\ UNCHANGED <<download_queue, status, quality, heights, has_info,
                   requested, watched, denied_at, artifact, sabr_mode_active,
                   sabr_checked, probes, last_transition, before_activation,
                   settings_sabr_active, console_indicator, text_only,
                   quality_menu, audio_format_menu, ffmpeg_installed,
                   videos_to_move, tree_children, selected_items, fetches,
                   url_threads, info_cache, cache_expiry, extraction_locks,
                   in_progress_seen, served, auto_probes, is_downloading,
                   start_button, stop_button, stop_event, cur_cancelled, wpc,
                   windex, wcur, exc, was_stopped, workers, tails, ytdlp,
                   download_result, download_cancelled, monitor, alive,
                   orphans, calls, enqueued, observed, produced>>

\* update_video_status, run by the GUI thread for the oldest scheduled callback
update_video_status ==
    /\ Len(afterQ) > 0
    /\ Head(afterQ).kind = "status"
    /\ status' = IF InQueue(Head(afterQ).item)
                 THEN [status EXCEPT ![Head(afterQ).item] = Head(afterQ).st]
                 ELSE status
    /\ artifact' = "none"
    /\ afterQ' = Tail(afterQ)
    /\ UNCHANGED <<download_queue, quality, heights, has_info, requested,
                   watched, denied_at, sabr_mode_active, sabr_checked, probes,
                   last_transition, before_activation, settings_sabr_active,
                   console_indicator, text_only, quality_menu,
                   audio_format_menu, ffmpeg_installed, videos_to_move,
                   tree_children, selected_items, fetches, url_threads,
                   info_cache, cache_expiry, extraction_locks,
                   in_progress_seen, served, auto_probes, is_downloading,
                   start_button, stop_button, stop_event, cur_cancelled, wpc,
                   windex, wcur, exc, was_stopped, workers, tails, ytdlp,
                   download_result, download_cancelled, monitor, alive,
                   orphans, resetting, calls, enqueued, observed, produced>>

\* update_button_states, run by the GUI thread for the oldest scheduled callback
update_button_states ==
    /\ Len(afterQ) > 0
    /\ Head(afterQ).kind = "buttons"
    /\ start_button' = StartButtonEnabled(is_downloading)
    /\ stop_button' = StopButtonEnabled(is_downloading)
    /\ afterQ' = Tail(afterQ)
    /\ UNCHANGED <<download_queue, status, quality, heights, has_info,
                   requested, watched, denied_at, artifact, sabr_mode_active,
                   sabr_checked, probes, last_transition, before_activation,
                   settings_sabr_active, console_indicator, text_only,
                   quality_menu, audio_format_menu, ffmpeg_installed,
                   videos_to_move, tree_children, selected_items, fetches,
                   url_threads, info_cache, cache_expiry, extraction_locks,
                   in_progress_seen, served, auto_probes, is_downloading,
                   stop_event, cur_cancelled, wpc, windex, wcur, exc,
                   was_stopped, workers, tails, ytdlp, download_result,
                   download_cancelled, monitor, alive, orphans, resetting,
                   calls, enqueued, observed, produced>>

\* save_settings: the status written to the settings file for a queue item
SavedStatus(st) == st

\* on_closing (settings saved, window destroyed, process ended) followed by
\* the next launch: load_settings inserts the saved queue with the saved
\* statuses; the threads and scheduled callbacks of the old process are gone
close_and_relaunch ==
    /\ status' = [i \in Items |-> SavedStatus(status[i])]
    /\ has_info' = [i \in Items |-> FALSE]
    /\ is_downloading' = FALSE
    /\ start_button' = TRUE
    /\ stop_button' = FALSE
    /\ stop_event' = FALSE
    /\ cur_cancelled' = FALSE
    /\ afterQ' = <<>>
    /\ wpc' = "none"
    /\ windex' = 0
    /\ wcur' = NoItem
    /\ exc' = "none"
    /\ was_stopped' = "unset"
    /\ workers' = 0
    /\ tails' = 0
    /\ ytdlp' = "none"
    /\ download_result' = "unset"
    /\ download_cancelled' = FALSE
    /\ monitor' = FALSE
    /\ alive' = 0
    /\ orphans' = 0
    /\ resetting' = {}
    /\ calls' = 0
    /\ enqueued' = <<>>
    /\ observed' = NoItem
    /\ produced' = NoItem
    /\ settings_sabr_active' = sabr_mode_active
    /\ console_indicator' = FALSE
    /\ sabr_mode_active' = LoadedSabrMode(sabr_mode_active)
    /\ probes' = [k \in ProbeKinds |-> 0]
    /\ last_transition' = "none"
    /\ quality_menu' = original_quality_options
    /\ audio_format_menu' = CheckFfmpegAvailability(original_audio_options, ffmpeg_installed)
    /\ videos_to_move' = NoItem
    /\ fetches' = [i \in Items |-> 0]
    /\ url_threads' = [t \in UrlThreads |-> IdleThread]
    /\ info_cache' = {}
    /\ cache_expiry' = {}
    /\ extraction_locks' = {}
    /\ in_progress_seen' = {}
    /\ served' = {}
    /\ UNCHANGED <<download_queue, quality, heights, requested, watched,
                   denied_at, artifact, sabr_checked, before_activation,
                   text_only, ffmpeg_installed, tree_children, selected_items,
                   auto_probes>>

\* ----- download_worker thread -------------------------------------------------

\* download_worker entry: the download path is checked; an invalid path ends
\* the worker with is_downloading = False and a scheduled button update
worker_begin ==
    /\ wpc = "begin"
    /\ \E path_ok \in BOOLEAN :
         IF path_ok
         THEN /\ wpc' = "loop"
              /\ UNCHANGED <<is_downloading, workers, afterQ>>
         ELSE /\ Len(afterQ) < MaxAfter
              /\ wpc' = "none"
              /\ is_downloading' = FALSE
              /\ workers' = workers - 1
              /\ afterQ' = Append(afterQ, ButtonsEvent)
    /\ UNCHANGED <<download_queue, status, quality, heights, has_info,
                   requested, watched, denied_at, artifact, sabr_mode_active,
                   sabr_checked, probes, last_transition, before_activation,
                   settings_sabr_active, console_indicator, text_only,
                   quality_menu, audio_format_menu, ffmpeg_installed,
                   videos_to_move, tree_children, selected_items, fetches,
                   url_threads, info_cache, cache_expiry, extraction_locks,
                   in_progress_seen, served, auto_probes, start_button,
                   stop_button, stop_event, cur_cancelled, windex, wcur, exc,
                   was_stopped, tails, ytdlp, download_result,
                   download_cancelled, monitor, alive, orphans, resetting,
                   calls, enqueued, observed, produced>>

\* the status test at the top of the loop body
WorkerSkips(st) == st \in SkippedByWorker

\* download_worker: loop condition, read of the item at current_index, the
\* skip of completed items, and the scheduling of status 'Downloading'
worker_loop ==
    /\ wpc = "loop"
    /\ IF windex < Len(download_queue) /\ ~stop_event
       THEN LET v == download_queue[windex + 1] IN
            IF WorkerSkips(status[v])
            THEN /\ windex' = windex + 1
                 /\ UNCHANGED <<wpc, wcur, afterQ>>
            ELSE /\ Len(afterQ) < MaxAfter
                 /\ wcur' = v
                 /\ afterQ' = Append(afterQ, StatusEvent(v, "Downloading"))
                 /\ wpc' = "prep"
                 /\ UNCHANGED windex
       ELSE /\ wpc' = "exit"
            /\ UNCHANGED <<windex, wcur, afterQ>>
    /\ UNCHANGED <<download_queue, status, quality, heights, has_info,
                   requested, watched, denied_at, artifact, sabr_mode_active,
                   sabr_checked, probes, last_transition, before_activation,
                   settings_sabr_active, console_indicator, text_only,
                   quality_menu, audio_format_menu, ffmpeg_installed,
                   videos_to_move, tree_children, selected_items, fetches,
                   url_threads, info_cache, cache_expiry, extraction_locks,
                   in_progress_seen, served, auto_probes, is_downloading,
                   start_button, stop_button, stop_event, cur_cancelled, exc,
                   was_stopped, workers, tails, ytdlp, download_result,
                   download_cancelled, monitor, alive, orphans, resetting,
                   calls, enqueued, observed, produced>>

\* check_quality_before_download: an audio quality is kept; the port is
\* asked for the formats and, if it answers, the quality is adjusted to them
QualityBeforeDownload(v, answered) ==
    IF ~IsAudio(quality[v]) /\ answered
    THEN CheckAndAdjust(heights[v], quality[v])
    ELSE quality[v]

\* download_worker: the quality check of an item without 'info', then the
\* cancellation flag is cleared and the cancellation monitor and the
\* run_ytdlp thread of the item are started
worker_prepare ==
    /\ wpc = "prep"
    /\ IF ~IsAudio(quality[wcur]) /\ ~has_info[wcur]
       THEN \E answered \in BOOLEAN :
              quality' = [quality EXCEPT ![wcur] = QualityBeforeDownload(wcur, answered)]
       ELSE UNCHANGED quality
    /\ cur_cancelled' = FALSE
    /\ download_cancelled' = FALSE
    /\ monitor' = TRUE
    /\ download_result' = "unset"
    /\ ytdlp' = "starting"
    /\ alive' = alive + 1
    /\ wpc' = "wait"
    /\ UNCHANGED <<download_queue, status, heights, has_info, requested,
                   watched, denied_at, artifact, sabr_mode_active,
                   sabr_checked, probes, last_transition, before_activation,
                   settings_sabr_active, console_indicator, text_only,
                   quality_menu, audio_format_menu, ffmpeg_installed,
                   videos_to_move, tree_children, selected_items, fetches,
                   url_threads, info_cache, cache_expiry, extraction_locks,
                   in_progress_seen, served, auto_probes, is_downloading,
                   start_button, stop_button, stop_event, afterQ, windex,
                   wcur, exc, was_stopped, workers, tails, orphans, resetting,
                   calls, enqueued, observed, produced>>

\* a worker that takes the run_ytdlp thread for ended without looking
FetchNeverAwaited == TRUE

\* ytdlp_thread.is_alive() is false
FetchEnded == ytdlp = "dead"

\* a wait loop without the stop test
StopIgnoredInWait == FALSE

\* download_worker: the stop test of the wait loop
StopSeenInWait == stop_event \/ download_cancelled

\* download_worker: the wait loop on the run_ytdlp thread
worker_wait ==
    /\ wpc = "wait"
    /\ \/ /\ FetchEnded
          /\ wpc' = "result"
          /\ UNCHANGED observed
       \/ /\ ~FetchEnded
          /\ StopSeenInWait
          /\ wpc' = "join"
          /\ observed' = wcur
    /\ UNCHANGED <<download_queue, status, quality, heights, has_info,
                   requested, watched, denied_at, artifact, sabr_mode_active,
                   sabr_checked, probes, last_transition, before_activation,
                   settings_sabr_active, console_indicator, text_only,
                   quality_menu, audio_format_menu, ffmpeg_installed,
                   videos_to_move, tree_children, selected_items, fetches,
                   url_threads, info_cache, cache_expiry, extraction_locks,
                   in_progress_seen, served, auto_probes, is_downloading,
                   start_button, stop_button, stop_event, cur_cancelled,
                   afterQ, windex, wcur, exc, was_stopped, workers, tails,
                   ytdlp, download_result, download_cancelled, monitor, alive,
                   orphans, resetting, calls, enqueued, produced>>

\* download_worker: join(timeout=1.0) after a stop was seen; a thread that is
\* still alive after it is abandoned and DownloadCancelled is raised
worker_join ==
    /\ wpc = "join"
    /\ \/ /\ FetchEnded
          /\ wpc' = "result"
          /\ UNCHANGED <<exc, ytdlp, alive, orphans>>
       \/ /\ ~FetchEnded
          /\ orphans < MaxOrphans
          /\ orphans' = orphans + 1
          /\ alive' = alive - 1
          /\ ytdlp' = "none"
          /\ exc' = "cancel"
          /\ wpc' = "except"
    /\ UNCHANGED <<download_queue, status, quality, heights, has_info,
                   requested, watched, denied_at, artifact, sabr_mode_active,
                   sabr_checked, probes, last_transition, before_activation,
                   settings_sabr_active, console_indicator, text_only,
                   quality_menu, audio_format_menu, ffmpeg_installed,
                   videos_to_move, tree_children, selected_items, fetches,
                   url_threads, info_cache, cache_expiry, extraction_locks,
                   in_progress_seen, served, auto_probes, is_downloading,
                   start_button, stop_button, stop_event, cur_cancelled,
                   afterQ, windex, wcur, was_stopped, workers, tails,
                   download_result, download_cancelled, monitor, resetting,
                   calls, enqueued, observed, produced>>

\* a worker without the stop test after the fetch
StopIgnoredAfterFetch == FALSE

\* download_worker: the stop test made after a fetch that ended without error
StopSeenAfterFetch == stop_event

\* download_worker: the check of download_result; after a fetch without error
\* the stop test, then validate_downloaded_file (artifact present and
\* non-empty, or not) and the status 'Done' or 'Failed'
worker_result ==
    /\ wpc = "result"
    /\ Len(afterQ) < MaxAfter
    /\ \/ /\ download_result = "cbs"
          /\ afterQ' = Append(afterQ, StatusEvent(wcur, "Pending"))
          /\ wcur' = NoItem
          /\ wpc' = "exit"
          /\ UNCHANGED <<exc, windex, download_cancelled, produced, observed, artifact>>
       \/ /\ download_result \in {"cancel", "e403", "eage", "eother"}
          /\ exc' = download_result
          /\ wpc' = "except"
          /\ UNCHANGED <<afterQ, wcur, windex, download_cancelled, produced, observed, artifact>>
       \/ /\ download_result \in {"ok", "unset"}
          /\ download_cancelled' = TRUE
          /\ produced' = IF stop_event THEN wcur ELSE produced
          /\ observed' = IF stop_event THEN wcur ELSE observed
          /\ IF StopSeenAfterFetch
             THEN /\ afterQ' = Append(afterQ, StatusEvent(wcur, "Pending"))
                  /\ wpc' = "exit"
                  /\ UNCHANGED <<windex, artifact>>
             ELSE /\ \E produced_file \in FileStates, similar_file \in FileStates :
                       /\ afterQ' = Append(afterQ,
                               StatusEvent(wcur,
                                   IF ValidateDownloadedFile(produced_file, similar_file)
                                   THEN "Done" ELSE "Failed"))
                       /\ artifact' = produced_file
                  /\ windex' = windex + 1
                  /\ wpc' = "loop"
          /\ wcur' = NoItem
          /\ UNCHANGED exc
    /\ ytdlp' = "none"
    /\ download_result' = "unset"
    /\ UNCHANGED <<download_queue, status, quality, heights, has_info,
                   requested, watched, denied_at, sabr_mode_active,
                   sabr_checked, probes, last_transition, before_activation,
                   settings_sabr_active, console_indicator, text_only,
                   quality_menu, audio_format_menu, ffmpeg_installed,
                   videos_to_move, tree_children, selected_items, fetches,
                   url_threads, info_cache, cache_expiry, extraction_locks,
                   in_progress_seen, served, auto_probes, is_downloading,
                   start_button, stop_button, stop_event, cur_cancelled,
                   was_stopped, workers, tails, monitor, alive, orphans,
                   resetting, calls, enqueued>>

\* an except clause that takes every failure for a stop
StopAssumedInExcept == TRUE

\* a worker without the stop test in the except clause
StopIgnoredInExcept == FALSE

\* download_worker: the stop test of the except clause
StopSeenInExcept == stop_event

\* download_worker: "except Exception"
worker_except ==
    /\ wpc = "except"
    /\ Len(afterQ) < MaxAfter
    /\ observed' = IF stop_event THEN wcur ELSE observed
    /\ IF StopSeenInExcept
       THEN /\ afterQ' = Append(afterQ, StatusEvent(wcur, "Pending"))
            /\ wpc' = "exit"
            /\ UNCHANGED <<quality, windex>>
       ELSE /\ afterQ' = Append(afterQ,
                           StatusEvent(wcur, ClassifyStatus(exc, quality[wcur])))
            /\ quality' = [quality EXCEPT ![wcur] = ClassifyQuality(exc, quality[wcur])]
            /\ windex' = windex + 1
            /\ wpc' = "loop"
    /\ denied_at' = IF wcur = watched /\ exc = "e403" /\ ~StopSeenInExcept
                     THEN denied_at \cup {quality[wcur]}
                     ELSE denied_at
    /\ wcur' = NoItem
    /\ exc' = "none"
    /\ UNCHANGED <<download_queue, status, heights, has_info, requested,
                   watched, artifact, sabr_mode_active, sabr_checked, probes,
                   last_transition, before_activation, settings_sabr_active,
                   console_indicator, text_only, quality_menu,
                   audio_format_menu, ffmpeg_installed, videos_to_move,
                   tree_children, selected_items, fetches, url_threads,
                   info_cache, cache_expiry, extraction_locks,
                   in_progress_seen, served, auto_probes, is_downloading,
                   start_button, stop_button, stop_event, cur_cancelled,
                   was_stopped, workers, tails, ytdlp, download_result,
                   download_cancelled, monitor, alive, orphans, resetting,
                   calls, enqueued, produced>>

\* download_worker after the loop: was_stopped is read and is_downloading is
\* set to False; stop_event.clear() is the statement after it
worker_exit ==
    /\ wpc = "exit"
    /\ was_stopped' = IF stop_event THEN "yes" ELSE "no"
    /\ is_downloading' = FALSE
    /\ workers' = workers - 1
    /\ tails' = tails + 1
    /\ wpc' = "none"
    /\ windex' = 0
    /\ UNCHANGED <<download_queue, status, quality, heights, has_info,
                   requested, watched, denied_at, artifact, sabr_mode_active,
                   sabr_checked, probes, last_transition, before_activation,
                   settings_sabr_active, console_indicator, text_only,
                   quality_menu, audio_format_menu, ffmpeg_installed,
                   videos_to_move, tree_children, selected_items, fetches,
                   url_threads, info_cache, cache_expiry, extraction_locks,
                   in_progress_seen, served, auto_probes, start_button,
                   stop_button, stop_event, cur_cancelled, afterQ, wcur, exc,
                   ytdlp, download_result, download_cancelled, monitor, alive,
                   orphans, resetting, calls, enqueued, observed, produced>>

\* download_worker: stop_event.clear() of a worker that has set is_downloading
\* to False, and the button update it schedules as its last step
worker_clear ==
    /\ tails > 0
    /\ Len(afterQ) < MaxAfter
    /\ tails' = tails - 1
    /\ stop_event' = FALSE
    /\ afterQ' = Append(afterQ, ButtonsEvent)
    /\ UNCHANGED <<download_queue, status, quality, heights, has_info,
                   requested, watched, denied_at, artifact, sabr_mode_active,
                   sabr_checked, probes, last_transition, before_activation,
                   settings_sabr_active, console_indicator, text_only,
                   quality_menu, audio_format_menu, ffmpeg_installed,
                   videos_to_move, tree_children, selected_items, fetches,
                   url_threads, info_cache, cache_expiry, extraction_locks,
                   in_progress_seen, served, auto_probes, is_downloading,
                   start_button, stop_button, cur_cancelled, wpc, windex,
                   wcur, exc, was_stopped, workers, ytdlp, download_result,
                   download_cancelled, monitor, alive, orphans, resetting,
                   calls, enqueued, observed, produced>>

\* ----- run_ytdlp thread ---------------------------------------------------------

\* run_ytdlp: the stop test before anything is started; a thread that passes
\* it goes on to the second stop test and the download call
ytdlp_start ==
    /\ ytdlp = "starting"
    /\ IF stop_event \/ download_cancelled
       THEN /\ download_result' = "cbs"
            /\ ytdlp' = "dead"
            /\ alive' = alive - 1
       ELSE /\ ytdlp' = "running"
            /\ UNCHANGED <<download_result, alive>>
    /\ UNCHANGED <<download_queue, status, quality, heights, has_info,
                   requested, watched, denied_at, artifact, sabr_mode_active,
                   sabr_checked, probes, last_transition, before_activation,
                   settings_sabr_active, console_indicator, text_only,
                   quality_menu, audio_format_menu, ffmpeg_installed,
                   videos_to_move, tree_children, selected_items, fetches,
                   url_threads, info_cache, cache_expiry, extraction_locks,
                   in_progress_seen, served, auto_probes, is_downloading,
                   start_button, stop_button, stop_event, cur_cancelled,
                   afterQ, wpc, windex, wcur, exc, was_stopped, workers,
                   tails, download_cancelled, monitor, orphans, resetting,
                   calls, enqueued, observed, produced>>

\* the outcomes a started fetch can end with: DownloadCancelled is raised only
\* by the second stop test of run_ytdlp (stop event or download_cancelled set),
\* by progress_hook (stop event set) and by YtDlpLogger._queue_message (stop
\* event or cancellation flag set)
FetchOutcomes ==
    {"ok"} \cup PortErrors \cup
    (IF stop_event \/ cur_cancelled \/ download_cancelled THEN {"cancel"} ELSE {})

\* run_ytdlp: ydl.download / ydl.process_ie_result returns or raises
ytdlp_finish ==
    /\ ytdlp = "running"
    /\ \E r \in FetchOutcomes : download_result' = r
    /\ ytdlp' = "dead"
    /\ alive' = alive - 1
    /\ UNCHANGED <<download_queue, status, quality, heights, has_info,
                   requested, watched, denied_at, artifact, sabr_mode_active,
                   sabr_checked, probes, last_transition, before_activation,
                   settings_sabr_active, console_indicator, text_only,
                   quality_menu, audio_format_menu, ffmpeg_installed,
                   videos_to_move, tree_children, selected_items, fetches,
                   url_threads, info_cache, cache_expiry, extraction_locks,
                   in_progress_seen, served, auto_probes, is_downloading,
                   start_button, stop_button, stop_event, cur_cancelled,
                   afterQ, wpc, windex, wcur, exc, was_stopped, workers,
                   tails, download_cancelled, monitor, orphans, resetting,
                   calls, enqueued, observed, produced>>

\* an abandoned run_ytdlp thread ends
orphan_finish ==
    /\ orphans > 0
    /\ orphans' = orphans - 1
    /\ UNCHANGED <<download_queue, status, quality, heights, has_info,
                   requested, watched, denied_at, artifact, sabr_mode_active,
                   sabr_checked, probes, last_transition, before_activation,
                   settings_sabr_active, console_indicator, text_only,
                   quality_menu, audio_format_menu, ffmpeg_installed,
                   videos_to_move, tree_children, selected_items, fetches,
                   url_threads, info_cache, cache_expiry, extraction_locks,
                   in_progress_seen, served, auto_probes, is_downloading,
                   start_button, stop_button, stop_event, cur_cancelled,
                   afterQ, wpc, windex, wcur, exc, was_stopped, workers,
                   tails, ytdlp, download_result, download_cancelled, monitor,
                   alive, resetting, calls, enqueued, observed, produced>>

\* ----- cancellation_monitor thread ------------------------------------------

cancellation_monitor ==
    /\ monitor
    /\ \/ /\ download_cancelled
          /\ monitor' = FALSE
          /\ UNCHANGED download_cancelled
       \/ /\ ~download_cancelled
          /\ stop_event
          /\ download_cancelled' = TRUE
          /\ monitor' = FALSE
    /\ UNCHANGED <<download_queue, status, quality, heights, has_info,
                   requested, watched, denied_at, artifact, sabr_mode_active,
                   sabr_checked, probes, last_transition, before_activation,
                   settings_sabr_active, console_indicator, text_only,
                   quality_menu, audio_format_menu, ffmpeg_installed,
                   videos_to_move, tree_children, selected_items, fetches,
                   url_threads, info_cache, cache_expiry, extraction_locks,
                   in_progress_seen, served, auto_probes, is_downloading,
                   start_button, stop_button, stop_event, cur_cancelled,
                   afterQ, wpc, windex, wcur, exc, was_stopped, workers,
                   tails, ytdlp, download_result, alive, orphans, resetting,
                   calls, enqueued, observed, produced>>

\* ----- specification of the orchestrator -------------------------------------

Next ==
    \/ start_download
    \/ stop_download
    \/ update_video_status
    \/ update_button_states
    \/ close_and_relaunch
    \/ worker_begin
    \/ worker_loop
    \/ worker_prepare
    \/ worker_wait
    \/ worker_join
    \/ worker_result
    \/ worker_except
    \/ worker_exit
    \/ worker_clear
    \/ ytdlp_start
    \/ ytdlp_finish
    \/ orphan_finish
    \/ cancellation_monitor

Spec == Init /\ [][Next]_vars

\* the steps of the download_worker thread
WorkerSteps ==
    \/ worker_begin
    \/ worker_loop
    \/ worker_prepare
    \/ worker_wait
    \/ worker_join
    \/ worker_result
    \/ worker_except
    \/ worker_exit
    \/ worker_clear

\* the callbacks of the Tk event queue
GuiCallbacks ==
    \/ update_video_status
    \/ update_button_states

\* one process: the orchestrator until the window is closed
NextRun ==
    \/ start_download
    \/ stop_download
    \/ GuiCallbacks
    \/ WorkerSteps
    \/ ytdlp_start
    \/ ytdlp_finish
    \/ orphan_finish
    \/ cancellation_monitor

\* fair scheduling: the worker thread, the GUI thread and the cancellation
\* monitor, which polls every 50 ms, get to run, and a fetch that was
\* abandoned in an earlier stop ends; a fetch that is running need not end
Fairness ==
    /\ WF_vars(WorkerSteps)
    /\ WF_vars(GuiCallbacks)
    /\ WF_vars(orphan_finish)
    /\ WF_vars(cancellation_monitor)

\* a loaded queue of pending videos, as Init
InitRun ==
    /\ download_queue = [k \in 1..MaxRun |-> k]
    /\ quality = [i \in Items |-> InitQuality]
    /\ heights = [i \in Items |-> {QualityToHeight(InitQuality)}]
    /\ has_info = [i \in Items |-> FALSE]
    /\ requested = "none"
    /\ watched = NoItem
    /\ denied_at = {}
    /\ artifact = "none"
    /\ InitState

SpecFair == InitRun /\ [][NextRun]_vars /\ Fairness

\* ----- move_to_top with a selection of several rows ------------------------

MoveItems == 1..MaxMove

\* a sequence in reverse order
RECURSIVE Reversed(_)
Reversed(q) == IF q = <<>> THEN <<>> ELSE Append(Reversed(Tail(q)), Head(q))

\* "for video in videos: self.download_queue.insert(0, video)"
RECURSIVE InsertedAtFront(_, _)
InsertedAtFront(q, videos) ==
    IF videos = <<>> THEN q
    ELSE InsertedAtFront(<<Head(videos)>> \o q, Tail(videos))

\* a sequence without the members of another
Without(q, removed) ==
    SelectSeq(q, LAMBDA x : \A k \in 1..Len(removed) : removed[k] # x)

\* move_to_top: the videos of reversed(selected_items) are popped into
\* videos_to_move, and the videos of reversed(videos_to_move) are inserted
\* at index 0 one after another
MoveToTopQueue(q, selected) ==
    LET popped == Reversed(selected)
    IN  InsertedAtFront(Without(q, selected), Reversed(popped))

\* move_to_top: self.tree.move(item_id, '', i) for the i-th selected row
MoveToTopTree(rows, selected) == selected \o Without(rows, selected)

\* rows of the tree view are selected
select_rows ==
    /\ \E chosen \in SUBSET MoveItems :
         selected_items' = SelectSeq(tree_children, LAMBDA x : x \in chosen)
    /\ UNCHANGED <<download_queue, status, quality, heights, has_info,
                   requested, watched, denied_at, artifact, sabr_mode_active,
                   sabr_checked, probes, last_transition, before_activation,
                   settings_sabr_active, console_indicator, text_only,
                   quality_menu, audio_format_menu, ffmpeg_installed,
                   videos_to_move, tree_children, fetches, url_threads,
                   info_cache, cache_expiry, extraction_locks,
                   in_progress_seen, served, auto_probes, is_downloading,
                   start_button, stop_button, stop_event, cur_cancelled,
                   afterQ, wpc, windex, wcur, exc, was_stopped, workers,
                   tails, ytdlp, download_result, download_cancelled, monitor,
                   alive, orphans, resetting, calls, enqueued, observed,
                   produced>>

\* move_to_top: nothing is done without a selection or when the first
\* selected row is the first row of the tree
move_to_top_selection ==
    /\ IF selected_items = <<>> \/ selected_items[1] = tree_children[1]
       THEN UNCHANGED <<download_queue, tree_children>>
       ELSE /\ download_queue' = MoveToTopQueue(download_queue, selected_items)
            /\ tree_children' = MoveToTopTree(tree_children, selected_items)
    /\ UNCHANGED <<status, quality, heights, has_info, requested, watched,
                   denied_at, artifact, sabr_mode_active, sabr_checked,
                   probes, last_transition, before_activation,
                   settings_sabr_active, console_indicator, text_only,
                   quality_menu, audio_format_menu, ffmpeg_installed,
                   videos_to_move, selected_items, fetches, url_threads,
                   info_cache, cache_expiry, extraction_locks,
                   in_progress_seen, served, auto_probes, is_downloading,
                   start_button, stop_button, stop_event, cur_cancelled,
                   afterQ, wpc, windex, wcur, exc, was_stopped, workers,
                   tails, ytdlp, download_result, download_cancelled, monitor,
                   alive, orphans, resetting, calls, enqueued, observed,
                   produced>>

\* a queue of pending videos that the tree view shows in the same order
InitSelection ==
    /\ download_queue = [k \in MoveItems |-> k]
    /\ quality = [i \in Items |-> InitQuality]
    /\ heights = [i \in Items |-> {QualityToHeight(InitQuality)}]
    /\ has_info = [i \in Items |-> FALSE]
    /\ requested = "none"
    /\ watched = NoItem
    /\ denied_at = {}
    /\ artifact = "none"
    /\ InitState

NextSelection ==
    \/ select_rows
    \/ move_to_top_selection

SpecSelection == InitSelection /\ [][NextSelection]_vars

\* ----- move_to_top while the worker runs ------------------------------------

\* move_to_top with one selected item, first loop: the video is popped from
\* self.download_queue
move_to_top_pop(i) ==
    /\ videos_to_move = NoItem
    /\ InQueue(i)
    /\ download_queue[1] # i
    /\ download_queue' = SelectSeq(download_queue, LAMBDA x : x # i)
    /\ videos_to_move' = i
    /\ UNCHANGED <<status, quality, heights, has_info, requested, watched,
                   denied_at, artifact, sabr_mode_active, sabr_checked,
                   probes, last_transition, before_activation,
                   settings_sabr_active, console_indicator, text_only,
                   quality_menu, audio_format_menu, ffmpeg_installed,
                   tree_children, selected_items, fetches, url_threads,
                   info_cache, cache_expiry, extraction_locks,
                   in_progress_seen, served, auto_probes, is_downloading,
                   start_button, stop_button, stop_event, cur_cancelled,
                   afterQ, wpc, windex, wcur, exc, was_stopped, workers,
                   tails, ytdlp, download_result, download_cancelled, monitor,
                   alive, orphans, resetting, calls, enqueued, observed,
                   produced>>

\* move_to_top, second loop: the video is inserted at index 0
move_to_top_insert ==
    /\ videos_to_move # NoItem
    /\ download_queue' = <<videos_to_move>> \o download_queue
    /\ videos_to_move' = NoItem
    /\ UNCHANGED <<status, quality, heights, has_info, requested, watched,
                   denied_at, artifact, sabr_mode_active, sabr_checked,
                   probes, last_transition, before_activation,
                   settings_sabr_active, console_indicator, text_only,
                   quality_menu, audio_format_menu, ffmpeg_installed,
                   tree_children, selected_items, fetches, url_threads,
                   info_cache, cache_expiry, extraction_locks,
                   in_progress_seen, served, auto_probes, is_downloading,
                   start_button, stop_button, stop_event, cur_cancelled,
                   afterQ, wpc, windex, wcur, exc, was_stopped, workers,
                   tails, ytdlp, download_result, download_cancelled, monitor,
                   alive, orphans, resetting, calls, enqueued, observed,
                   produced>>

\* download_worker, "while current_index < len(self.download_queue) and not
\* self.stop_event.is_set()"
worker_loop_test ==
    /\ wpc = "loop"
    /\ wpc' = IF windex < Len(download_queue) /\ ~stop_event THEN "read" ELSE "exit"
    /\ UNCHANGED <<download_queue, status, quality, heights, has_info,
                   requested, watched, denied_at, artifact, sabr_mode_active,
                   sabr_checked, probes, last_transition, before_activation,
                   settings_sabr_active, console_indicator, text_only,
                   quality_menu, audio_format_menu, ffmpeg_installed,
                   videos_to_move, tree_children, selected_items, fetches,
                   url_threads, info_cache, cache_expiry, extraction_locks,
                   in_progress_seen, served, auto_probes, is_downloading,
                   start_button, stop_button, stop_event, cur_cancelled,
                   afterQ, windex, wcur, exc, was_stopped, workers, tails,
                   ytdlp, download_result, download_cancelled, monitor, alive,
                   orphans, resetting, calls, enqueued, observed, produced>>

\* download_worker, "video_info = self.download_queue[current_index]", which
\* raises IndexError outside the try statement when the queue has become
\* shorter, then the skip of completed items and the scheduling of the
\* status 'Downloading'
worker_loop_read ==
    /\ wpc = "read"
    /\ IF windex < Len(download_queue)
       THEN LET v == download_queue[windex + 1] IN
            IF WorkerSkips(status[v])
            THEN /\ windex' = windex + 1
                 /\ wpc' = "loop"
                 /\ UNCHANGED <<wcur, afterQ, fetches>>
            ELSE /\ Len(afterQ) < MaxAfter
                 /\ wcur' = v
                 /\ afterQ' = Append(afterQ, StatusEvent(v, "Downloading"))
                 /\ wpc' = "prep"
                 /\ fetches' = [fetches EXCEPT ![v] = IF @ = 0 THEN 1 ELSE 2]
                 /\ UNCHANGED windex
       ELSE /\ wpc' = "IndexError"
            /\ UNCHANGED <<windex, wcur, afterQ, fetches>>
    /\ UNCHANGED <<download_queue, status, quality, heights, has_info,
                   requested, watched, denied_at, artifact, sabr_mode_active,
                   sabr_checked, probes, last_transition, before_activation,
                   settings_sabr_active, console_indicator, text_only,
                   quality_menu, audio_format_menu, ffmpeg_installed,
                   videos_to_move, tree_children, selected_items, url_threads,
                   info_cache, cache_expiry, extraction_locks,
                   in_progress_seen, served, auto_probes, is_downloading,
                   start_button, stop_button, stop_event, cur_cancelled, exc,
                   was_stopped, workers, tails, ytdlp, download_result,
                   download_cancelled, monitor, alive, orphans, resetting,
                   calls, enqueued, observed, produced>>

\* no video has been taken for a fetch in this process
FirstRun == \A i \in Items : fetches[i] = 0

\* the handlers and callbacks of the GUI thread, which run one after
\* another; the run that makes the first fetch is the last one started
GuiThread ==
    /\ videos_to_move = NoItem
    /\ \/ FirstRun /\ start_download
       \/ stop_download
       \/ GuiCallbacks

\* one process in which videos are moved to the top while the worker runs
NextMove ==
    \/ GuiThread
    \/ \E i \in Items : move_to_top_pop(i)
    \/ move_to_top_insert
    \/ worker_begin
    \/ worker_loop_test
    \/ worker_loop_read
    \/ worker_prepare
    \/ worker_wait
    \/ worker_join
    \/ worker_result
    \/ worker_except
    \/ worker_exit
    \/ worker_clear
    \/ ytdlp_start
    \/ ytdlp_finish
    \/ orphan_finish
    \/ cancellation_monitor

SpecMove == Init /\ [][NextMove]_vars

\* the orchestrator with the queue edited while it runs
NextOps ==
    \/ Next
    \/ \E i \in Items : move_to_top(i)
    \/ \E i \in Items : reset_selected(i)
    \/ \E i \in Items : reset_worker(i)

SpecOps == Init /\ [][NextOps]_vars

\* the orchestrator with videos reset while it runs
NextReset ==
    \/ Next
    \/ \E i \in Items : reset_selected(i)
    \/ \E i \in Items : reset_worker(i)

SpecReset == Init /\ [][NextReset]_vars

\* ----- the orchestrator with a single queued video ----------------------------

\* qualities a video is queued with
RetryQualities == {"Best", "2160p (4K)", "1080p", "720p", "480p", "360p",
                   "Audio-best", "Audio-default"}

\* format lists the port reports for the video
RetryHeights == {{1080}, {1080, 720}, {2160, 360}}

\* one video is queued, at any quality, with or without 'info'; its
\* access-denied failures are recorded
InitRetry ==
    /\ download_queue = <<1>>
    /\ \E q \in RetryQualities :
         quality = [i \in Items |-> IF i = 1 THEN q ELSE InitQuality]
    /\ \E hs \in RetryHeights :
         heights = [i \in Items |-> IF i = 1 THEN hs ELSE {QualityToHeight(InitQuality)}]
    /\ \E b \in BOOLEAN :
         has_info = [i \in Items |-> IF i = 1 THEN b ELSE FALSE]
    /\ requested = "none"
    /\ watched = 1
    /\ denied_at = {}
    /\ artifact = "none"
    /\ InitState

SpecRetry == InitRetry /\ [][Next]_vars

\* ----- the quality of a single video at the time it is added -----------------

\* the quality menu holds any of its options and the port reports any
\* non-empty set of video heights for the video; nothing is queued yet
InitResolve ==
    /\ download_queue = <<>>
    /\ quality = [i \in Items |-> InitQuality]
    /\ \E hs \in (SUBSET Heights) \ {{}} :
         heights = [i \in Items |-> IF i = 1 THEN hs ELSE {QualityToHeight(InitQuality)}]
    /\ has_info = [i \in Items |-> FALSE]
    /\ \E k \in 1..Len(QualityOptions) : requested = QualityOptions[k]
    /\ watched = NoItem
    /\ denied_at = {}
    /\ artifact = "none"
    /\ InitState

\* _extract_info, a single video: the requested quality is adjusted to the
\* formats of the video, and the video is handed over with its 'info'
extract_info ==
    /\ download_queue = <<>>
    /\ requested # "none"
    /\ quality' = [quality EXCEPT ![1] = CheckAndAdjust(heights[1], requested)]
    /\ has_info' = [has_info EXCEPT ![1] = TRUE]
    /\ download_queue' = <<1>>
    /\ UNCHANGED <<status, heights, requested, watched, denied_at, artifact,
                   sabr_mode_active, sabr_checked, probes, last_transition,
                   before_activation, settings_sabr_active, console_indicator,
                   text_only, quality_menu, audio_format_menu,
                   ffmpeg_installed, videos_to_move, tree_children,
                   selected_items, fetches, url_threads, info_cache,
                   cache_expiry, extraction_locks, in_progress_seen, served,
                   auto_probes, is_downloading, start_button, stop_button,
                   stop_event, cur_cancelled, afterQ, wpc, windex, wcur, exc,
                   was_stopped, workers, tails, ytdlp, download_result,
                   download_cancelled, monitor, alive, orphans, resetting,
                   calls, enqueued, observed, produced>>

NextResolve == extract_info

SpecResolve == InitResolve /\ [][NextResolve]_vars

\* ----- SABR bypass mode --------------------------------------------------------

\* qualities and statuses of the queue the mode is studied with
SabrQualities == {"Best", "360p", "Audio-best", "Audio-high_m4a"}

SabrStatuses == {"Pending", "Done"}

\* a queue of pending videos of any of these qualities and of finished
\* videos at Best is loaded, no thread runs, and SABR mode is off
InitSabrQueue ==
    /\ download_queue = [k \in 1..MaxItems |-> k]
    /\ quality \in [Items -> SabrQualities]
    /\ status \in [Items -> SabrStatuses]
    /\ \A i \in Items : status[i] = "Done" => quality[i] = "Best"
    /\ heights = [i \in Items |-> {QualityToHeight(InitQuality)}]
    /\ has_info = [i \in Items |-> FALSE]
    /\ requested = "none"
    /\ watched = NoItem
    /\ denied_at = {}
    /\ artifact = "none"

InitSabr == InitSabrQueue /\ InitIdle

\* activate_sabr_mode: the mode is on, the time of the check is taken,
\* update_quality_options_for_sabr rebuilds the menus, and
\* update_queue_for_sabr_mode rewrites the queue
activate_sabr_mode ==
    /\ quality_menu' = sabr_quality_options
    /\ audio_format_menu' = sabr_audio_options
    /\ sabr_mode_active' = TRUE
    /\ sabr_checked' = TRUE
    /\ quality' = UpdateQueueForSabr
    /\ last_transition' = "activated"
    /\ before_activation' = quality

\* a deactivation that gives the rewritten videos the best quality again
deactivate_restoring_quality ==
    /\ quality_menu' = original_quality_options
    /\ audio_format_menu' = original_audio_options
    /\ sabr_mode_active' = FALSE
    /\ quality' = [i \in Items |-> IF quality[i] = "360p" THEN "Best" ELSE quality[i]]
    /\ last_transition' = "deactivated"
    /\ UNCHANGED <<sabr_checked, before_activation>>

\* deactivate_sabr_mode: the mode is off, and restore_full_quality_options
\* rebuilds the menus
deactivate_sabr_mode ==
    /\ quality_menu' = original_quality_options
    /\ audio_format_menu' = original_audio_options
    /\ sabr_mode_active' = FALSE
    /\ last_transition' = "deactivated"
    /\ UNCHANGED <<quality, sabr_checked, before_activation>>

\* an hour passes without a detection: the last check is more than an hour
\* old, and no automatic detection was started within the hour
hour_passes ==
    /\ sabr_checked \/ auto_probes > 0
    /\ sabr_checked' = FALSE
    /\ auto_probes' = 0
    /\ UNCHANGED <<download_queue, status, quality, heights, has_info,
                   requested, watched, denied_at, artifact, sabr_mode_active,
                   probes, last_transition, before_activation,
                   settings_sabr_active, console_indicator, text_only,
                   quality_menu, audio_format_menu, ffmpeg_installed,
                   videos_to_move, tree_children, selected_items, fetches,
                   url_threads, info_cache, cache_expiry, extraction_locks,
                   in_progress_seen, served, is_downloading, start_button,
                   stop_button, stop_event, cur_cancelled, afterQ, wpc,
                   windex, wcur, exc, was_stopped, workers, tails, ytdlp,
                   download_result, download_cancelled, monitor, alive,
                   orphans, resetting, calls, enqueued, observed, produced>>

\* trigger_sabr_detection, called by add_videos_to_gui for new videos and by
\* start_download for pending ones when should_check_sabr holds: the
\* run_detection thread is started
trigger_sabr_detection ==
    /\ ~sabr_mode_active
    /\ ~sabr_checked
    /\ \E i \in QueueItems : status[i] = "Pending"
    /\ probes["detection"] < MaxProbes
    /\ probes' = [probes EXCEPT !["detection"] = @ + 1]
    /\ auto_probes' = IF auto_probes = 0 THEN 1 ELSE 2
    /\ UNCHANGED <<download_queue, status, quality, heights, has_info,
                   requested, watched, denied_at, artifact, sabr_mode_active,
                   sabr_checked, last_transition, before_activation,
                   settings_sabr_active, console_indicator, text_only,
                   quality_menu, audio_format_menu, ffmpeg_installed,
                   videos_to_move, tree_children, selected_items, fetches,
                   url_threads, info_cache, cache_expiry, extraction_locks,
                   in_progress_seen, served, is_downloading, start_button,
                   stop_button, stop_event, cur_cancelled, afterQ, wpc,
                   windex, wcur, exc, was_stopped, workers, tails, ytdlp,
                   download_result, download_cancelled, monitor, alive,
                   orphans, resetting, calls, enqueued, observed, produced>>

\* recheck_sabr, the button of the SABR indicator, which is shown while the
\* mode is on: the run_recheck thread is started
recheck_sabr ==
    /\ sabr_mode_active
    /\ download_queue # <<>>
    /\ probes["recheck"] < MaxProbes
    /\ probes' = [probes EXCEPT !["recheck"] = @ + 1]
    /\ UNCHANGED <<download_queue, status, quality, heights, has_info,
                   requested, watched, denied_at, artifact, sabr_mode_active,
                   sabr_checked, last_transition, before_activation,
                   settings_sabr_active, console_indicator, text_only,
                   quality_menu, audio_format_menu, ffmpeg_installed,
                   videos_to_move, tree_children, selected_items, fetches,
                   url_threads, info_cache, cache_expiry, extraction_locks,
                   in_progress_seen, served, auto_probes, is_downloading,
                   start_button, stop_button, stop_event, cur_cancelled,
                   afterQ, wpc, windex, wcur, exc, was_stopped, workers,
                   tails, ytdlp, download_result, download_cancelled, monitor,
                   alive, orphans, resetting, calls, enqueued, observed,
                   produced>>

\* manual_sabr_check, the "Check SABR" button, which is shown while the mode
\* is off: the run_manual_check thread is started
manual_sabr_check ==
    /\ ~sabr_mode_active
    /\ probes["recheck"] < MaxProbes
    /\ probes' = [probes EXCEPT !["recheck"] = @ + 1]
    /\ UNCHANGED <<download_queue, status, quality, heights, has_info,
                   requested, watched, denied_at, artifact, sabr_mode_active,
                   sabr_checked, last_transition, before_activation,
                   settings_sabr_active, console_indicator, text_only,
                   quality_menu, audio_format_menu, ffmpeg_installed,
                   videos_to_move, tree_children, selected_items, fetches,
                   url_threads, info_cache, cache_expiry, extraction_locks,
                   in_progress_seen, served, auto_probes, is_downloading,
                   start_button, stop_button, stop_event, cur_cancelled,
                   afterQ, wpc, windex, wcur, exc, was_stopped, workers,
                   tails, ytdlp, download_result, download_cancelled, monitor,
                   alive, orphans, resetting, calls, enqueued, observed,
                   produced>>

\* run_detection, run_recheck and run_manual_check: detect_sabr_mode returns
\* and the result is scheduled for the handler of the thread, or it raises
\* and only a log line is scheduled
run_detection ==
    /\ \E k \in ProbeKinds :
         /\ probes[k] > 0
         /\ probes' = [probes EXCEPT ![k] = @ - 1]
         /\ \/ /\ Len(afterQ) < MaxAfter
               /\ \E sabr_warnings \in BOOLEAN, https_formats \in BOOLEAN :
                    afterQ' = Append(afterQ,
                        SabrEvent(k, DetectSabrMode(console_indicator,
                                                    sabr_warnings, https_formats)))
               /\ text_only' = (text_only \/ console_indicator)
            \/ UNCHANGED <<afterQ, text_only>>
    /\ UNCHANGED <<download_queue, status, quality, heights, has_info,
                   requested, watched, denied_at, artifact, sabr_mode_active,
                   sabr_checked, last_transition, before_activation,
                   settings_sabr_active, console_indicator, quality_menu,
                   audio_format_menu, ffmpeg_installed, videos_to_move,
                   tree_children, selected_items, fetches, url_threads,
                   info_cache, cache_expiry, extraction_locks,
                   in_progress_seen, served, auto_probes, is_downloading,
                   start_button, stop_button, stop_event, cur_cancelled, wpc,
                   windex, wcur, exc, was_stopped, workers, tails, ytdlp,
                   download_result, download_cancelled, monitor, alive,
                   orphans, resetting, calls, enqueued, observed, produced>>

\* the logger of a running detection meets a SABR warning of yt-dlp while
\* the mode is off and schedules activate_sabr_from_warning
sabr_warning ==
    /\ \E k \in ProbeKinds : probes[k] > 0
    /\ ~sabr_mode_active
    /\ Len(afterQ) < MaxAfter
    /\ afterQ' = Append(afterQ, SabrEvent("warning", TRUE))
    /\ UNCHANGED <<download_queue, status, quality, heights, has_info,
                   requested, watched, denied_at, artifact, sabr_mode_active,
                   sabr_checked, probes, last_transition, before_activation,
                   settings_sabr_active, console_indicator, text_only,
                   quality_menu, audio_format_menu, ffmpeg_installed,
                   videos_to_move, tree_children, selected_items, fetches,
                   url_threads, info_cache, cache_expiry, extraction_locks,
                   in_progress_seen, served, auto_probes, is_downloading,
                   start_button, stop_button, stop_event, cur_cancelled, wpc,
                   windex, wcur, exc, was_stopped, workers, tails, ytdlp,
                   download_result, download_cancelled, monitor, alive,
                   orphans, resetting, calls, enqueued, observed, produced>>

\* a handler of the automatic detection that treats its result as
\* handle_sabr_recheck_result does
handle_sabr_detection_as_recheck ==
    /\ Len(afterQ) > 0
    /\ Head(afterQ).kind = "detection"
    /\ afterQ' = Tail(afterQ)
    /\ IF Head(afterQ).detected /\ ~sabr_mode_active
       THEN activate_sabr_mode
       ELSE IF ~Head(afterQ).detected /\ sabr_mode_active
       THEN deactivate_sabr_mode
       ELSE /\ sabr_checked' = (IF ~Head(afterQ).detected THEN TRUE ELSE sabr_checked)
            /\ UNCHANGED <<sabr_mode_active, quality, last_transition, before_activation,
                         quality_menu, audio_format_menu>>
    /\ UNCHANGED <<download_queue, status, heights, has_info, requested,
                   watched, denied_at, artifact, probes, settings_sabr_active,
                   console_indicator, text_only, ffmpeg_installed,
                   videos_to_move, tree_children, selected_items, fetches,
                   url_threads, info_cache, cache_expiry, extraction_locks,
                   in_progress_seen, served, auto_probes, is_downloading,
                   start_button, stop_button, stop_event, cur_cancelled, wpc,
                   windex, wcur, exc, was_stopped, workers, tails, ytdlp,
                   download_result, download_cancelled, monitor, alive,
                   orphans, resetting, calls, enqueued, observed, produced>>

\* handle_sabr_detection_result, run by the GUI thread
handle_sabr_detection_result ==
    /\ Len(afterQ) > 0
    /\ Head(afterQ).kind = "detection"
    /\ afterQ' = Tail(afterQ)
    /\ IF Head(afterQ).detected /\ ~sabr_mode_active
       THEN activate_sabr_mode
       ELSE /\ sabr_checked' = (IF ~Head(afterQ).detected THEN TRUE ELSE sabr_checked)
            /\ UNCHANGED <<sabr_mode_active, quality, last_transition, before_activation,
                         quality_menu, audio_format_menu>>
    /\ UNCHANGED <<download_queue, status, heights, has_info, requested,
                   watched, denied_at, artifact, probes, settings_sabr_active,
                   console_indicator, text_only, ffmpeg_installed,
                   videos_to_move, tree_children, selected_items, fetches,
                   url_threads, info_cache, cache_expiry, extraction_locks,
                   in_progress_seen, served, auto_probes, is_downloading,
                   start_button, stop_button, stop_event, cur_cancelled, wpc,
                   windex, wcur, exc, was_stopped, workers, tails, ytdlp,
                   download_result, download_cancelled, monitor, alive,
                   orphans, resetting, calls, enqueued, observed, produced>>

\* handle_sabr_recheck_result, run by the GUI thread
handle_sabr_recheck_result ==
    /\ Len(afterQ) > 0
    /\ Head(afterQ).kind = "recheck"
    /\ afterQ' = Tail(afterQ)
    /\ IF Head(afterQ).detected /\ ~sabr_mode_active
       THEN activate_sabr_mode
       ELSE IF ~Head(afterQ).detected /\ sabr_mode_active
       THEN deactivate_sabr_mode
       ELSE /\ sabr_checked' = (IF Head(afterQ).detected THEN TRUE ELSE sabr_checked)
            /\ UNCHANGED <<sabr_mode_active, quality, last_transition, before_activation,
                         quality_menu, audio_format_menu>>
    /\ UNCHANGED <<download_queue, status, heights, has_info, requested,
                   watched, denied_at, artifact, probes, settings_sabr_active,
                   console_indicator, text_only, ffmpeg_installed,
                   videos_to_move, tree_children, selected_items, fetches,
                   url_threads, info_cache, cache_expiry, extraction_locks,
                   in_progress_seen, served, auto_probes, is_downloading,
                   start_button, stop_button, stop_event, cur_cancelled, wpc,
                   windex, wcur, exc, was_stopped, workers, tails, ytdlp,
                   download_result, download_cancelled, monitor, alive,
                   orphans, resetting, calls, enqueued, observed, produced>>

\* activate_sabr_from_warning, run by the GUI thread
activate_sabr_from_warning ==
    /\ Len(afterQ) > 0
    /\ Head(afterQ).kind = "warning"
    /\ afterQ' = Tail(afterQ)
    /\ IF ~sabr_mode_active
       THEN activate_sabr_mode
       ELSE UNCHANGED <<sabr_mode_active, sabr_checked, quality, last_transition,
                        before_activation, quality_menu, audio_format_menu>>
    /\ UNCHANGED <<download_queue, status, heights, has_info, requested,
                   watched, denied_at, artifact, probes, settings_sabr_active,
                   console_indicator, text_only, ffmpeg_installed,
                   videos_to_move, tree_children, selected_items, fetches,
                   url_threads, info_cache, cache_expiry, extraction_locks,
                   in_progress_seen, served, auto_probes, is_downloading,
                   start_button, stop_button, stop_event, cur_cancelled, wpc,
                   windex, wcur, exc, was_stopped, workers, tails, ytdlp,
                   download_result, download_cancelled, monitor, alive,
                   orphans, resetting, calls, enqueued, observed, produced>>

\* force_sabr_mode, the "Force SABR" button, which is shown while the mode is
\* off
force_sabr_mode ==
    /\ ~sabr_mode_active
    /\ activate_sabr_mode
    /\ UNCHANGED <<download_queue, status, heights, has_info, requested,
                   watched, denied_at, artifact, probes, settings_sabr_active,
                   console_indicator, text_only, ffmpeg_installed,
                   videos_to_move, tree_children, selected_items, fetches,
                   url_threads, info_cache, cache_expiry, extraction_locks,
                   in_progress_seen, served, auto_probes, is_downloading,
                   start_button, stop_button, stop_event, cur_cancelled,
                   afterQ, wpc, windex, wcur, exc, was_stopped, workers,
                   tails, ytdlp, download_result, download_cancelled, monitor,
                   alive, orphans, resetting, calls, enqueued, observed,
                   produced>>

\* log_message: a line with one of the SABR indicators, such as a yt-dlp
\* warning about PO tokens or "Quality auto-adjusted" to 360p, is written to
\* the console
log_message ==
    /\ ~console_indicator
    /\ console_indicator' = TRUE
    /\ UNCHANGED <<download_queue, status, quality, heights, has_info,
                   requested, watched, denied_at, artifact, sabr_mode_active,
                   sabr_checked, probes, last_transition, before_activation,
                   settings_sabr_active, text_only, quality_menu,
                   audio_format_menu, ffmpeg_installed, videos_to_move,
                   tree_children, selected_items, fetches, url_threads,
                   info_cache, cache_expiry, extraction_locks,
                   in_progress_seen, served, auto_probes, is_downloading,
                   start_button, stop_button, stop_event, cur_cancelled,
                   afterQ, wpc, windex, wcur, exc, was_stopped, workers,
                   tails, ytdlp, download_result, download_cancelled, monitor,
                   alive, orphans, resetting, calls, enqueued, observed,
                   produced>>

NextSabr ==
    \/ hour_passes
    \/ trigger_sabr_detection
    \/ recheck_sabr
    \/ manual_sabr_check
    \/ run_detection
    \/ sabr_warning
    \/ handle_sabr_detection_result
    \/ handle_sabr_recheck_result
    \/ activate_sabr_from_warning
    \/ force_sabr_mode
    \/ close_and_relaunch

SpecSabr == InitSabr /\ [][NextSabr]_vars

\* the "Force SABR" button while the queue is being downloaded
NextSabrRun ==
    \/ force_sabr_mode
    \/ NextRun

SpecSabrRun == Init /\ [][NextSabrRun]_vars

\* SABR mode with the lines that the console shows
NextDetect ==
    \/ NextSabr
    \/ log_message

SpecDetect == InitSabr /\ [][NextDetect]_vars

\* the "Check Dependencies" button: check_dependencies ends with
\* check_ffmpeg_availability, which rebuilds the audio format menu when
\* FFmpeg is not found
check_dependencies ==
    /\ audio_format_menu' = CheckFfmpegAvailability(audio_format_menu, ffmpeg_installed)
    /\ UNCHANGED <<download_queue, status, quality, heights, has_info,
                   requested, watched, denied_at, artifact, sabr_mode_active,
                   sabr_checked, probes, last_transition, before_activation,
                   settings_sabr_active, console_indicator, text_only,
                   quality_menu, ffmpeg_installed, videos_to_move,
                   tree_children, selected_items, fetches, url_threads,
                   info_cache, cache_expiry, extraction_locks,
                   in_progress_seen, served, auto_probes, is_downloading,
                   start_button, stop_button, stop_event, cur_cancelled,
                   afterQ, wpc, windex, wcur, exc, was_stopped, workers,
                   tails, ytdlp, download_result, download_cancelled, monitor,
                   alive, orphans, resetting, calls, enqueued, observed,
                   produced>>

\* a machine with or without FFmpeg
InitMenus == InitSabrQueue /\ \E ffmpeg_found \in BOOLEAN : InitApp(ffmpeg_found)

\* SABR mode with the dependency check
NextMenus ==
    \/ NextSabr
    \/ check_dependencies

SpecMenus == InitMenus /\ [][NextMenus]_vars

\* ----- extraction cache: add_url and _process_url_with_cache ----------------

\* the URLs that may be added more than once
CacheUrls == 1..MaxCallers

\* the thread that the next add_url starts
NextThread(t) ==
    /\ url_threads[t].pc = "idle"
    /\ \A u \in UrlThreads : u < t => url_threads[u].pc # "idle"

\* add_url: a thread runs _process_url_with_cache for the URL of the entry
\* and the quality of the menu
add_url ==
    \E t \in UrlThreads, url \in CacheUrls :
        /\ t <= MaxCallers
        /\ NextThread(t)
        /\ url_threads' = [url_threads EXCEPT ![t] =
                              [pc |-> "cache", cache_key |-> CacheKey(url, InitQuality)]]
        /\ UNCHANGED <<download_queue, status, quality, heights, has_info,
                       requested, watched, denied_at, artifact,
                       sabr_mode_active, sabr_checked, probes,
                       last_transition, before_activation,
                       settings_sabr_active, console_indicator, text_only,
                       quality_menu, audio_format_menu, ffmpeg_installed,
                       videos_to_move, tree_children, selected_items, fetches,
                       info_cache, cache_expiry, extraction_locks,
                       in_progress_seen, served, auto_probes, is_downloading,
                       start_button, stop_button, stop_event, cur_cancelled,
                       afterQ, wpc, windex, wcur, exc, was_stopped, workers,
                       tails, ytdlp, download_result, download_cancelled,
                       monitor, alive, orphans, resetting, calls, enqueued,
                       observed, produced>>

\* add_url with a URL that was not added before
add_new_url ==
    \E t \in UrlThreads :
        /\ NextThread(t)
        /\ url_threads' = [url_threads EXCEPT ![t] =
                              [pc |-> "cache", cache_key |-> CacheKey(t, InitQuality)]]
        /\ UNCHANGED <<download_queue, status, quality, heights, has_info,
                       requested, watched, denied_at, artifact,
                       sabr_mode_active, sabr_checked, probes,
                       last_transition, before_activation,
                       settings_sabr_active, console_indicator, text_only,
                       quality_menu, audio_format_menu, ffmpeg_installed,
                       videos_to_move, tree_children, selected_items, fetches,
                       info_cache, cache_expiry, extraction_locks,
                       in_progress_seen, served, auto_probes, is_downloading,
                       start_button, stop_button, stop_event, cur_cancelled,
                       afterQ, wpc, windex, wcur, exc, was_stopped, workers,
                       tails, ytdlp, download_result, download_cancelled,
                       monitor, alive, orphans, resetting, calls, enqueued,
                       observed, produced>>

\* _process_url_with_cache, "if cache_key in self.info_cache": a valid entry
\* is handed to add_videos_to_gui, an expired one is to be removed
check_cache(t) ==
    /\ url_threads[t].pc = "cache"
    /\ LET key == url_threads[t].cache_key IN
       IF key \in info_cache /\ key \in cache_expiry
       THEN /\ served' = served \cup {t}
            /\ url_threads' = [url_threads EXCEPT ![t].pc = "done"]
       ELSE /\ url_threads' = [url_threads EXCEPT ![t].pc =
                                 IF key \in info_cache THEN "expired" ELSE "locks"]
            /\ UNCHANGED served
    /\ UNCHANGED <<download_queue, status, quality, heights, has_info,
                   requested, watched, denied_at, artifact, sabr_mode_active,
                   sabr_checked, probes, last_transition, before_activation,
                   settings_sabr_active, console_indicator, text_only,
                   quality_menu, audio_format_menu, ffmpeg_installed,
                   videos_to_move, tree_children, selected_items, fetches,
                   info_cache, cache_expiry, extraction_locks,
                   in_progress_seen, auto_probes, is_downloading,
                   start_button, stop_button, stop_event, cur_cancelled,
                   afterQ, wpc, windex, wcur, exc, was_stopped, workers,
                   tails, ytdlp, download_result, download_cancelled, monitor,
                   alive, orphans, resetting, calls, enqueued, observed,
                   produced>>

\* _process_url_with_cache, "del self.info_cache[cache_key]": a KeyError
\* ends the thread when the entry is gone
remove_expired(t) ==
    /\ url_threads[t].pc = "expired"
    /\ LET key == url_threads[t].cache_key IN
       /\ info_cache' = info_cache \ {key}
       /\ cache_expiry' = cache_expiry \ {key}
       /\ url_threads' = [url_threads EXCEPT ![t].pc =
                            IF key \in info_cache THEN "locks" ELSE "done"]
    /\ UNCHANGED <<download_queue, status, quality, heights, has_info,
                   requested, watched, denied_at, artifact, sabr_mode_active,
                   sabr_checked, probes, last_transition, before_activation,
                   settings_sabr_active, console_indicator, text_only,
                   quality_menu, audio_format_menu, ffmpeg_installed,
                   videos_to_move, tree_children, selected_items, fetches,
                   extraction_locks, in_progress_seen, served, auto_probes,
                   is_downloading, start_button, stop_button, stop_event,
                   cur_cancelled, afterQ, wpc, windex, wcur, exc, was_stopped,
                   workers, tails, ytdlp, download_result, download_cancelled,
                   monitor, alive, orphans, resetting, calls, enqueued,
                   observed, produced>>

\* _process_url_with_cache, "if cache_key in self.extraction_locks"
check_locks(t) ==
    /\ url_threads[t].pc = "locks"
    /\ LET in_progress == url_threads[t].cache_key \in extraction_locks IN
       /\ url_threads' = [url_threads EXCEPT ![t].pc = LocksStep(in_progress)]
       /\ in_progress_seen' = IF in_progress THEN in_progress_seen \cup {t}
                                            ELSE in_progress_seen
    /\ UNCHANGED <<download_queue, status, quality, heights, has_info,
                   requested, watched, denied_at, artifact, sabr_mode_active,
                   sabr_checked, probes, last_transition, before_activation,
                   settings_sabr_active, console_indicator, text_only,
                   quality_menu, audio_format_menu, ffmpeg_installed,
                   videos_to_move, tree_children, selected_items, fetches,
                   info_cache, cache_expiry, extraction_locks, served,
                   auto_probes, is_downloading, start_button, stop_button,
                   stop_event, cur_cancelled, afterQ, wpc, windex, wcur, exc,
                   was_stopped, workers, tails, ytdlp, download_result,
                   download_cancelled, monitor, alive, orphans, resetting,
                   calls, enqueued, observed, produced>>

\* _process_url_with_cache, "self.extraction_locks[cache_key] = True"; the
\* thread then calls _extract_info
set_lock(t) ==
    /\ url_threads[t].pc = "lock"
    /\ extraction_locks' = extraction_locks \cup {url_threads[t].cache_key}
    /\ url_threads' = [url_threads EXCEPT ![t].pc = "extract"]
    /\ UNCHANGED <<download_queue, status, quality, heights, has_info,
                   requested, watched, denied_at, artifact, sabr_mode_active,
                   sabr_checked, probes, last_transition, before_activation,
                   settings_sabr_active, console_indicator, text_only,
                   quality_menu, audio_format_menu, ffmpeg_installed,
                   videos_to_move, tree_children, selected_items, fetches,
                   info_cache, cache_expiry, in_progress_seen, served,
                   auto_probes, is_downloading, start_button, stop_button,
                   stop_event, cur_cancelled, afterQ, wpc, windex, wcur, exc,
                   was_stopped, workers, tails, ytdlp, download_result,
                   download_cancelled, monitor, alive, orphans, resetting,
                   calls, enqueued, observed, produced>>

\* _extract_info returns: a list of videos is cached for five minutes and
\* handed to add_videos_to_gui, None or an empty list is not
extract_info_returns(t) ==
    /\ url_threads[t].pc = "extract"
    /\ \E videos_to_add \in BOOLEAN :
         IF videos_to_add
         THEN /\ info_cache' = info_cache \cup {url_threads[t].cache_key}
              /\ cache_expiry' = cache_expiry \cup {url_threads[t].cache_key}
              /\ served' = served \cup {t}
         ELSE UNCHANGED <<info_cache, cache_expiry, served>>
    /\ url_threads' = [url_threads EXCEPT ![t].pc = "finally"]
    /\ UNCHANGED <<download_queue, status, quality, heights, has_info,
                   requested, watched, denied_at, artifact, sabr_mode_active,
                   sabr_checked, probes, last_transition, before_activation,
                   settings_sabr_active, console_indicator, text_only,
                   quality_menu, audio_format_menu, ffmpeg_installed,
                   videos_to_move, tree_children, selected_items, fetches,
                   extraction_locks, in_progress_seen, auto_probes,
                   is_downloading, start_button, stop_button, stop_event,
                   cur_cancelled, afterQ, wpc, windex, wcur, exc, was_stopped,
                   workers, tails, ytdlp, download_result, download_cancelled,
                   monitor, alive, orphans, resetting, calls, enqueued,
                   observed, produced>>

\* _process_url_with_cache, finally: the key leaves self.extraction_locks
release_lock(t) ==
    /\ url_threads[t].pc = "finally"
    /\ extraction_locks' = extraction_locks \ {url_threads[t].cache_key}
    /\ url_threads' = [url_threads EXCEPT ![t].pc = "done"]
    /\ UNCHANGED <<download_queue, status, quality, heights, has_info,
                   requested, watched, denied_at, artifact, sabr_mode_active,
                   sabr_checked, probes, last_transition, before_activation,
                   settings_sabr_active, console_indicator, text_only,
                   quality_menu, audio_format_menu, ffmpeg_installed,
                   videos_to_move, tree_children, selected_items, fetches,
                   info_cache, cache_expiry, in_progress_seen, served,
                   auto_probes, is_downloading, start_button, stop_button,
                   stop_event, cur_cancelled, afterQ, wpc, windex, wcur, exc,
                   was_stopped, workers, tails, ytdlp, download_result,
                   download_cancelled, monitor, alive, orphans, resetting,
                   calls, enqueued, observed, produced>>

\* five minutes pass for a cache entry
cache_expires ==
    /\ \E key \in cache_expiry : cache_expiry' = cache_expiry \ {key}
    /\ UNCHANGED <<download_queue, status, quality, heights, has_info,
                   requested, watched, denied_at, artifact, sabr_mode_active,
                   sabr_checked, probes, last_transition, before_activation,
                   settings_sabr_active, console_indicator, text_only,
                   quality_menu, audio_format_menu, ffmpeg_installed,
                   videos_to_move, tree_children, selected_items, fetches,
                   url_threads, info_cache, extraction_locks,
                   in_progress_seen, served, auto_probes, is_downloading,
                   start_button, stop_button, stop_event, cur_cancelled,
                   afterQ, wpc, windex, wcur, exc, was_stopped, workers,
                   tails, ytdlp, download_result, download_cancelled, monitor,
                   alive, orphans, resetting, calls, enqueued, observed,
                   produced>>

\* cleanup_cache, run by periodic_cleanup: expired entries are removed
cleanup_cache ==
    /\ info_cache # cache_expiry
    /\ info_cache' = info_cache \cap cache_expiry
    /\ UNCHANGED <<download_queue, status, quality, heights, has_info,
                   requested, watched, denied_at, artifact, sabr_mode_active,
                   sabr_checked, probes, last_transition, before_activation,
                   settings_sabr_active, console_indicator, text_only,
                   quality_menu, audio_format_menu, ffmpeg_installed,
                   videos_to_move, tree_children, selected_items, fetches,
                   url_threads, cache_expiry, extraction_locks,
                   in_progress_seen, served, auto_probes, is_downloading,
                   start_button, stop_button, stop_event, cur_cancelled,
                   afterQ, wpc, windex, wcur, exc, was_stopped, workers,
                   tails, ytdlp, download_result, download_cancelled, monitor,
                   alive, orphans, resetting, calls, enqueued, observed,
                   produced>>

\* the steps of the _process_url_with_cache threads
ThreadSteps ==
    \/ \E t \in UrlThreads : check_cache(t)
    \/ \E t \in UrlThreads : check_locks(t)
    \/ \E t \in UrlThreads : set_lock(t)
    \/ \E t \in UrlThreads : extract_info_returns(t)
    \/ \E t \in UrlThreads : release_lock(t)

\* URLs that are added again while the entries of the cache expire
NextCache ==
    \/ add_url
    \/ ThreadSteps
    \/ \E t \in UrlThreads : remove_expired(t)
    \/ cache_expires
    \/ cleanup_cache

SpecCache == Init /\ [][NextCache]_vars

\* URLs that are added once each, within the five minutes of the cache
NextProbes ==
    \/ add_new_url
    \/ ThreadSteps

SpecProbes == Init /\ [][NextProbes]_vars

\* the _extract_info calls, the probes of the port, that are running for a key
ProbesInFlight(key) ==
    {t \in UrlThreads : url_threads[t].pc = "extract" /\ url_threads[t].cache_key = key}

\* ----- enqueue: add_videos_to_gui and _insert_videos_chunked -----------------

\* root.after(0, self.add_videos_to_gui, videos_to_add)
AddEvent(videos) == [kind |-> "add", videos |-> videos]

\* root.after(0, lambda: self._insert_videos_chunked(rest, chunk_size))
ChunkEvent(rest) == [kind |-> "chunk", videos |-> rest]

\* the batches an extraction thread hands over: 1..MaxBatch distinct video
\* objects, listed by ascending number
Batches ==
    {b \in UNION {[1..n -> Videos] : n \in 1..MaxBatch} :
        \A p, q \in 1..Len(b) : p < q => b[p] < b[q]}

\* existing_ids of add_videos_to_gui
ExistingIds == {VideoId(download_queue[k]) : k \in 1..Len(download_queue)}

\* a duplicate check that does not remember the ids of the batch
SeenForgotten(existing_ids, v) == existing_ids

\* existing_ids.add(video.get('id'))
SeenAdded(existing_ids, v) == existing_ids \cup {VideoId(v)}

\* add_videos_to_gui: the duplicate check, item by item
RECURSIVE NewVideos(_, _)
NewVideos(videos, existing_ids) ==
    IF videos = <<>>
    THEN <<>>
    ELSE IF VideoId(Head(videos)) \notin existing_ids
         THEN <<Head(videos)>> \o
              NewVideos(Tail(videos), SeenAdded(existing_ids, Head(videos)))
         ELSE NewVideos(Tail(videos), existing_ids)

\* _insert_videos_chunked: videos[:chunk_size] and videos[chunk_size:]
ChunkBatch(videos) ==
    SubSeq(videos, 1, IF Len(videos) < ChunkSize THEN Len(videos) ELSE ChunkSize)

ChunkRest(videos) == SubSeq(videos, ChunkSize + 1, Len(videos))

\* _insert_videos_chunked, status = video.get('status', 'Pending'): a video
\* object without a 'status' entry has the status "none" here
StatusOnInsert(st) == IF st = "none" THEN "Pending" ELSE st

\* _insert_videos_chunked, video['status'] = status for the videos of a batch
InsertedStatus(batch) ==
    [i \in Items |-> IF \E k \in 1..Len(batch) : batch[k] = i
                     THEN StatusOnInsert(status[i])
                     ELSE status[i]]

\* an extraction thread schedules add_videos_to_gui for the videos it found
process_url ==
    /\ calls < MaxCalls
    /\ \E videos \in Batches :
         afterQ' = Append(afterQ, AddEvent(videos))
    /\ calls' = calls + 1
    /\ UNCHANGED <<download_queue, status, quality, heights, has_info,
                   requested, watched, denied_at, artifact, sabr_mode_active,
                   sabr_checked, probes, last_transition, before_activation,
                   settings_sabr_active, console_indicator, text_only,
                   quality_menu, audio_format_menu, ffmpeg_installed,
                   videos_to_move, tree_children, selected_items, fetches,
                   url_threads, info_cache, cache_expiry, extraction_locks,
                   in_progress_seen, served, auto_probes, is_downloading,
                   start_button, stop_button, stop_event, cur_cancelled, wpc,
                   windex, wcur, exc, was_stopped, workers, tails, ytdlp,
                   download_result, download_cancelled, monitor, alive,
                   orphans, resetting, enqueued, observed, produced>>

\* add_videos_to_gui, run by the GUI thread for the oldest scheduled
\* callback: the duplicate check, then the first chunk is inserted and the
\* rest is scheduled
add_videos_to_gui ==
    /\ Len(afterQ) > 0
    /\ Head(afterQ).kind = "add"
    /\ enqueued' = Head(afterQ).videos
    /\ LET new_videos == NewVideos(Head(afterQ).videos, ExistingIds) IN
         /\ download_queue' = download_queue \o ChunkBatch(new_videos)
         /\ status' = InsertedStatus(ChunkBatch(new_videos))
         /\ afterQ' = IF ChunkRest(new_videos) # <<>>
                      THEN Append(Tail(afterQ), ChunkEvent(ChunkRest(new_videos)))
                      ELSE Tail(afterQ)
    /\ UNCHANGED <<quality, heights, has_info, requested, watched, denied_at,
                   artifact, sabr_mode_active, sabr_checked, probes,
                   last_transition, before_activation, settings_sabr_active,
                   console_indicator, text_only, quality_menu,
                   audio_format_menu, ffmpeg_installed, videos_to_move,
                   tree_children, selected_items, fetches, url_threads,
                   info_cache, cache_expiry, extraction_locks,
                   in_progress_seen, served, auto_probes, is_downloading,
                   start_button, stop_button, stop_event, cur_cancelled, wpc,
                   windex, wcur, exc, was_stopped, workers, tails, ytdlp,
                   download_result, download_cancelled, monitor, alive,
                   orphans, resetting, calls, observed, produced>>

\* _insert_videos_chunked, run by the GUI thread for a scheduled rest
insert_videos_chunked ==
    /\ Len(afterQ) > 0
    /\ Head(afterQ).kind = "chunk"
    /\ LET videos == Head(afterQ).videos IN
         /\ download_queue' = download_queue \o ChunkBatch(videos)
         /\ status' = InsertedStatus(ChunkBatch(videos))
         /\ afterQ' = IF ChunkRest(videos) # <<>>
                      THEN Append(Tail(afterQ), ChunkEvent(ChunkRest(videos)))
                      ELSE Tail(afterQ)
    /\ UNCHANGED <<quality, heights, has_info, requested, watched, denied_at,
                   artifact, sabr_mode_active, sabr_checked, probes,
                   last_transition, before_activation, settings_sabr_active,
                   console_indicator, text_only, quality_menu,
                   audio_format_menu, ffmpeg_installed, videos_to_move,
                   tree_children, selected_items, fetches, url_threads,
                   info_cache, cache_expiry, extraction_locks,
                   in_progress_seen, served, auto_probes, is_downloading,
                   start_button, stop_button, stop_event, cur_cancelled, wpc,
                   windex, wcur, exc, was_stopped, workers, tails, ytdlp,
                   download_result, download_cancelled, monitor, alive,
                   orphans, resetting, calls, enqueued, observed, produced>>

\* _process_url_with_cache for a URL whose probe gives one video, taken as
\* one step and within the five minutes of the cache: a cached list of video
\* objects is handed to add_videos_to_gui as it is, and otherwise
\* _extract_info builds a new video object, which has no 'status' entry,
\* and the list is cached and handed over
process_url_with_cache(url) ==
    /\ Len(afterQ) < MaxAfter
    /\ afterQ' = Append(afterQ, AddEvent(<<url>>))
    /\ LET cache_key == CacheKey(url, InitQuality) IN
       IF cache_key \in info_cache /\ cache_key \in cache_expiry
       THEN UNCHANGED <<info_cache, cache_expiry, status>>
       ELSE /\ info_cache' = info_cache \cup {cache_key}
            /\ cache_expiry' = cache_expiry \cup {cache_key}
            /\ status' = [status EXCEPT ![url] = "none"]
    /\ UNCHANGED <<download_queue, quality, heights, has_info, requested,
                   watched, denied_at, artifact, sabr_mode_active,
                   sabr_checked, probes, last_transition, before_activation,
                   settings_sabr_active, console_indicator, text_only,
                   quality_menu, audio_format_menu, ffmpeg_installed,
                   videos_to_move, tree_children, selected_items, fetches,
                   url_threads, extraction_locks, in_progress_seen, served,
                   auto_probes, is_downloading, start_button, stop_button,
                   stop_event, cur_cancelled, wpc, windex, wcur, exc,
                   was_stopped, workers, tails, ytdlp, download_result,
                   download_cancelled, monitor, alive, orphans, resetting,
                   calls, enqueued, observed, produced>>

\* remove_selected with one selected row
remove_selected(i) ==
    /\ InQueue(i)
    /\ download_queue' = SelectSeq(download_queue, LAMBDA v : v # i)
    /\ UNCHANGED <<status, quality, heights, has_info, requested, watched,
                   denied_at, artifact, sabr_mode_active, sabr_checked,
                   probes, last_transition, before_activation,
                   settings_sabr_active, console_indicator, text_only,
                   quality_menu, audio_format_menu, ffmpeg_installed,
                   videos_to_move, tree_children, selected_items, fetches,
                   url_threads, info_cache, cache_expiry, extraction_locks,
                   in_progress_seen, served, auto_probes, is_downloading,
                   start_button, stop_button, stop_event, cur_cancelled,
                   afterQ, wpc, windex, wcur, exc, was_stopped, workers,
                   tails, ytdlp, download_result, download_cancelled, monitor,
                   alive, orphans, resetting, calls, enqueued, observed,
                   produced>>

\* an empty queue, and no URL was added yet
InitReadd ==
    /\ download_queue = <<>>
    /\ quality = [i \in Items |-> InitQuality]
    /\ heights = [i \in Items |-> {QualityToHeight(InitQuality)}]
    /\ has_info = [i \in Items |-> FALSE]
    /\ requested = "none"
    /\ watched = NoItem
    /\ denied_at = {}
    /\ artifact = "none"
    /\ InitState

\* URLs are added, removed and added again while the queue is downloaded
NextReadd ==
    \/ \E url \in 1..MaxRun : process_url_with_cache(url)
    \/ add_videos_to_gui
    \/ \E i \in Items : remove_selected(i)
    \/ NextRun

SpecReadd == InitReadd /\ [][NextReadd]_vars

NextEnqueue ==
    \/ process_url
    \/ add_videos_to_gui
    \/ insert_videos_chunked

SpecEnqueue == InitEnqueue /\ [][NextEnqueue]_vars

\* ----- properties of the orchestrator ------------------------------------------

\* the last run has ended and every callback scheduled so far has been run
Settled == ~is_downloading /\ wpc = "none" /\ afterQ = <<>>

\* C1: in every reachable state at most one queue item has status
\* Downloading.
C1_AtMostOneDownloading == Cardinality(DownloadingItems) <= 1

\* C2: at any instant at most one fetch invocation of the extraction port is
\* executing, abandoned fetches included.
C2_AtMostOneFetch == alive + orphans <= 1

\* C2 as amended: at most one fetch that a worker started and has not
\* abandoned is executing; fetches abandoned by the forced timeout may run
\* next to it.
C2_AtMostOneTrackedFetch == alive <= 1

\* C2, the case of the claim: after a forced abandonment, the worker's exit
\* and a following start, a new fetch runs while the abandoned one is alive.
C2_Witness == alive = 1 /\ orphans = 1 /\ ytdlp = "running" /\ ~stop_event

\* C3: after stop() was called and the run has ended, no item has status
\* Downloading.
C3_NoDownloadingAfterStop ==
    (was_stopped = "yes" /\ Settled) => DownloadingItems = {}

\* C4: an item whose fetch had completed successfully when the worker found
\* the stop signal set ends the run as Done.
C4_StoppedFetchEndsDone ==
    (produced # NoItem /\ Settled) => status[produced] = "Done"

\* C4 as amended: an item whose fetch had completed successfully when the
\* worker found the stop signal set is returned to Pending, the worker
\* leaves the loop without starting another item, and the run stops.
C4_StoppedFetchEndsPending ==
    /\ produced # NoItem => wpc \in {"exit", "none"}
    /\ (produced # NoItem /\ Settled) => status[produced] = "Pending"

\* C4, the case of the claim: the fetch of an item has succeeded under a stop
\* request and the run has ended with the item Pending.
C4_Witness ==
    produced # NoItem /\ Settled /\ was_stopped = "yes" /\ status[produced] = "Pending"

\* C5: once the worker has seen the cancellation signal while processing an
\* item, it starts no further item in that run, and the item is Pending
\* when the run has ended.
C5_ObservedStopEndsRun ==
    /\ observed # NoItem => wpc \in {"join", "result", "except", "exit", "none"}
    /\ (observed # NoItem /\ Settled) => status[observed] = "Pending"

\* C5, the case of the claim: the worker saw the stop signal while the fetch
\* of an item was running, abandoned the fetch, and the run has ended.
C5_Witness ==
    observed # NoItem /\ Settled /\ orphans = 1 /\ status[observed] = "Pending"

\* C6: a worker is created only by a start that finds no active run and a
\* pending item, one worker per such start, and at no time are two workers
\* inside the item-processing loop.
C6_SingleWorker ==
    /\ [](workers <= 1)
    /\ [][workers' > workers =>
            (~is_downloading /\ PendingVideos # {} /\ workers' = workers + 1)]_vars

\* C6, the case of the claim: a run has ended with an item Done and a
\* following start has created the worker of the next run.
C6_Witness ==
    workers = 1 /\ wpc = "begin" /\ \E i \in QueueItems : status[i] = "Done"

\* C7: once a stop has been requested for a run, the stop signal stays set
\* as long as that run is active.
C7_StopStaysSet ==
    [][(is_downloading /\ stop_event) => (stop_event' \/ ~is_downloading')]_vars

\* C7, the case of the claim: a stop was requested, the worker has left the
\* loop and is about to end the run, and the stop signal is still set.
C7_Witness == is_downloading /\ stop_event /\ wpc = "exit" /\ cur_cancelled

\* ----- properties of the enqueue operation ---------------------------------

\* the step is a run of add_videos_to_gui
AddCall ==
    /\ afterQ # <<>>
    /\ Head(afterQ).kind = "add"
    /\ Len(afterQ') <= Len(afterQ)

\* the videos the call accepted: those it inserted and those it scheduled
Accepted ==
    SubSeq(download_queue', Len(download_queue) + 1, Len(download_queue')) \o
    (IF Len(afterQ') = Len(afterQ) THEN afterQ'[Len(afterQ')].videos ELSE <<>>)

IdsOf(videos) == {VideoId(videos[k]) : k \in 1..Len(videos)}

UrlsOf(videos) == {VideoUrl(videos[k]) : k \in 1..Len(videos)}

\* C8: an add_videos_to_gui call for a batch whose items all carry an id
\* accepts no item whose id is already in the queue, accepts every id once,
\* and accepts exactly as many items as the batch has ids that are not in
\* the queue.
C8_AcceptsDistinctNewIds ==
    [][(AddCall /\ NoId \notin IdsOf(Head(afterQ).videos)) =>
         /\ IdsOf(Accepted) = IdsOf(Head(afterQ).videos) \ ExistingIds
         /\ Len(Accepted) = Cardinality(IdsOf(Head(afterQ).videos) \ ExistingIds)]_vars

\* C8, the case of the claim: a batch of two items with the same id was
\* enqueued into the empty queue and the queue has length 1.
C8_Witness ==
    /\ Len(enqueued) = 2
    /\ VideoId(enqueued[1]) = VideoId(enqueued[2])
    /\ VideoId(enqueued[1]) # NoId
    /\ calls = 1
    /\ download_queue = <<enqueued[1]>>
    /\ afterQ = <<>>

\* C9: chunked insertion leaves the queue as atomic insertion would: no two
\* items of the queue carry the same id.
C9_NoTwoItemsShareId ==
    \A p, q \in 1..Len(download_queue) :
        (p # q /\ VideoId(download_queue[p]) # NoId) =>
            VideoId(download_queue[p]) # VideoId(download_queue[q])

\* C10: an id-less item handed to add_videos_to_gui is rejected if and only
\* if an item with its URL is already in the queue.
C10_IdlessRejectedIffUrlQueued ==
    [][(AddCall /\ VideoId(Head(afterQ).videos[1]) = NoId) =>
         ((Accepted = <<>> \/ Accepted[1] # Head(afterQ).videos[1])
            <=> VideoUrl(Head(afterQ).videos[1]) \in UrlsOf(download_queue))]_vars

\* ----- properties of downgrade, classification and validation -----------------

\* the step is the worker's handling of a fetch failure of kind e when no
\* stop has been requested
FailureStep(e) ==
    /\ wpc = "except"
    /\ exc = e
    /\ ~stop_event
    /\ wpc' = "loop"

\* the status the step schedules for its item
ScheduledStatus == afterQ'[Len(afterQ')].st

C12_NoRepeatedDenial ==
    [][(FailureStep("e403") /\ wcur = watched)
        => quality[wcur] \notin denied_at]_vars

\* the rank of a quality in the order of the tiers, the fallbacks of the
\* video chain below every video tier
TierRank(q) ==
    CASE q = "Best"          -> 7
      [] q = "1080p"         -> 6
      [] q = "720p"          -> 5
      [] q = "480p"          -> 4
      [] q = "360p"          -> 3
      [] q = "Audio-best"    -> 2
      [] q = "Audio-default" -> 1
      [] OTHER               -> 0

\* the qualities that repeated downgrades from q visit, up to the first
\* "none" or the first quality visited before
RECURSIVE DowngradeChain(_, _)
DowngradeChain(q, seen) ==
    IF q = "none" \/ q \in seen
    THEN <<q>>
    ELSE <<q>> \o DowngradeChain(QualityFallback(q), seen \cup {q})

\* C13: repeated downgrades from the quality of any item end with "none"
\* without visiting a quality twice, every step to a quality strictly lowers
\* the tier rank, and the qualities without fallback are exactly
\* Audio-default and the qualities outside the two chains.
C13_DowngradeDescends ==
    \A i \in Items :
        LET chain == DowngradeChain(quality[i], {})
        IN  /\ chain[Len(chain)] = "none"
            /\ \A k \in 1..(Len(chain) - 2) :
                   TierRank(chain[k + 1]) < TierRank(chain[k])
            /\ (Len(chain) = 2) <=> (TierRank(quality[i]) <= 1)

\* C13, the case of the claim: the item went down the whole video chain,
\* one downgrade for each denied fetch, and the downgrade of the last
\* fallback gave none.
C13_Witness ==
    /\ denied_at = {"Best", "1080p", "720p", "480p", "360p", "Audio-default"}
    /\ quality[1] = "Audio-default"
    /\ status[1] = "QualityBlocked"

\* the place of a video height in the ordered list of the quality options
TierOfHeight(h) ==
    CASE h = 2160 -> 2
      [] h = 1440 -> 3
      [] h = 1080 -> 4
      [] h = 720  -> 5
      [] h = 480  -> 6
      [] h = 360  -> 7
      [] h = 240  -> 8
      [] h = 144  -> 9

\* the place of a quality option in the ordered list
TierOfQuality(q) == CHOOSE k \in 1..Len(QualityOptions) : QualityOptions[k] = q

\* the lowest available tier at or above the requested one, or the highest
\* available tier when there is none
ClosestAbove(available, q) ==
    LET tiers == {TierOfHeight(h) : h \in available}
        above == {t \in tiers : t <= TierOfQuality(q)}
    IN  QualityOptions[IF above # {} THEN SetMax(above) ELSE SetMin(tiers)]

\* C14: the quality a single video is queued with is the lowest available
\* tier at or above the requested option, or the highest available tier when
\* no available tier is at or above it.
C14_ResolvesClosestAbove ==
    (download_queue # <<>> /\ has_info[1])
        => quality[1] = ClosestAbove(heights[1], requested)

\* C14 for the cases in which the requested option is one of 1080p, 720p,
\* 480p and 360p and every available height is one of 1080, 720, 480 and 360
C14_ResolvesClosestAboveOfFour ==
    (/\ download_queue # <<>> /\ has_info[1]
     /\ requested \in {"1080p", "720p", "480p", "360p"}
     /\ heights[1] \subseteq {1080, 720, 480, 360})
        => quality[1] = ClosestAbove(heights[1], requested)

\* C15: an access-denied failure gives the item the status QualityBlocked.
C15_DeniedIsQualityBlocked ==
    [][FailureStep("e403") => ScheduledStatus = "QualityBlocked"]_vars

\* C15 as amended: an access-denied failure at a quality with a fallback
\* lowers the quality one step and gives Pending, one at a quality without
\* fallback gives QualityBlocked and keeps the quality; an age restriction
\* gives AgeRestricted and any other failure Failed, both keeping the quality.
C15_ClassifiesFailures ==
    /\ [][FailureStep("e403") =>
            IF QualityFallback(quality[wcur]) # "none"
            THEN /\ ScheduledStatus = "Pending"
                 /\ quality'[wcur] = QualityFallback(quality[wcur])
            ELSE /\ ScheduledStatus = "QualityBlocked"
                 /\ quality'[wcur] = quality[wcur]]_vars
    /\ [][FailureStep("eage") =>
            (ScheduledStatus = "AgeRestricted" /\ quality' = quality)]_vars
    /\ [][(FailureStep("eother") \/ FailureStep("cancel")) =>
            (ScheduledStatus = "Failed" /\ quality' = quality)]_vars

\* C15, the case of the claim: in one run the first item failed with an age
\* restriction and kept its quality, and the second one was denied and
\* lowered.
C15_Witness ==
    /\ status[1] = "AgeRestricted"
    /\ quality[1] = InitQuality
    /\ status[2] = "Pending"
    /\ quality[2] = QualityFallback(InitQuality)
    /\ wpc = "loop"

\* the step is the worker's validation of a fetch that the port reported as
\* successful, no stop having been requested
ValidationStep ==
    /\ wpc = "result"
    /\ download_result = "ok"
    /\ wpc' = "loop"

\* C16: after a fetch reported as successful the item becomes Done when the
\* file of the fetch exists with content and Failed when it is missing or
\* has 0 bytes, and the worker advances to the next item.
C16_DoneIffArtifact ==
    [][ValidationStep =>
         /\ ScheduledStatus = (IF artifact' = "full" THEN "Done" ELSE "Failed")
         /\ windex' = windex + 1]_vars

\* C16, the part on the worker: the validation of a fetch reported as
\* successful gives Done or Failed, a file of 0 bytes gives Failed, and the
\* worker advances to the next item.
C16_ValidationAdvances ==
    [][ValidationStep =>
         /\ ScheduledStatus \in {"Done", "Failed"}
         /\ (artifact' = "empty" => ScheduledStatus = "Failed")
         /\ (artifact' = "full" => ScheduledStatus = "Done")
         /\ windex' = windex + 1]_vars

\* C17: when no stop has been requested, the worker's handling of a failed
\* fetch gives the item one of the statuses of the classification, moves
\* the worker on to the next item of the queue and leaves the run going.
C17_FailureAdvances ==
    [][(worker_except /\ ~stop_event) =>
         /\ ScheduledStatus = ClassifyStatus(exc, quality[wcur])
         /\ windex' = windex + 1
         /\ wpc' = "loop"
         /\ is_downloading' /\ workers' = workers]_vars

\* C17, the case of the claim: the first item of the run has failed, no stop
\* was requested, and the worker of the same run fetches the second item.
C17_Witness ==
    /\ status[1] \in {"Failed", "AgeRestricted"}
    /\ windex = 1
    /\ wcur = 2
    /\ status[2] = "Downloading"
    /\ ytdlp = "running"
    /\ ~stop_event
    /\ workers = 1

\* ----- properties of SABR bypass mode -------------------------------------------

\* the qualities that stay selectable in SABR mode
SafeSubset == {"360p", "Audio-standard_mp3", "Audio-high_m4a"}

\* the step turns SABR mode on
Activation == ~sabr_mode_active /\ sabr_mode_active'

\* the step turns SABR mode off
Deactivation == sabr_mode_active /\ ~sabr_mode_active'

C19_DeactivationKeepsQueue ==
    [][Deactivation =>
         /\ download_queue' = download_queue
         /\ quality' = quality
         /\ status' = status]_vars

\* C19, the case of the claim: SABR mode was activated over a pending video
\* at Best and deactivated again, and the video is still pending at 360p.
C19_Witness ==
    /\ ~sabr_mode_active
    /\ last_transition = "deactivated"
    /\ \E i \in QueueItems :
         /\ status[i] = "Pending"
         /\ before_activation[i] = "Best"
         /\ quality[i] = "360p"

\* C20: while the program runs, SABR mode is turned off only by the handler
\* of a check the user asked for, on a result that detects no SABR, and the
\* handler of an automatic detection leaves an active mode on; a new launch
\* of the program starts with the mode off.
C20_OnlyRecheckDeactivates ==
    /\ [][Deactivation =>
            \/ close_and_relaunch
            \/ /\ handle_sabr_recheck_result
               /\ Head(afterQ) = SabrEvent("recheck", FALSE)]_vars
    /\ [][(handle_sabr_detection_result /\ sabr_mode_active)
            => sabr_mode_active']_vars

\* C20, the case of the claim: an automatic detection was started, the mode
\* was turned on and a re-check has turned it off, while the thread of the
\* automatic detection is still running.
C20_Witness ==
    /\ ~sabr_mode_active
    /\ last_transition = "deactivated"
    /\ probes["detection"] > 0
    /\ afterQ = <<>>

\* C21: whatever the enqueue and start calls, no second automatic detection
\* is started within an hour of an earlier one; the checks the user asks
\* for are not counted.
C21_OneAutomaticProbePerHour ==
    auto_probes <= 1

\* C22: right after a start of the program that has loaded the settings
\* file SABR mode is off, whatever 'active' the file holds.
C22_StartsNormal ==
    [][close_and_relaunch => ~sabr_mode_active']_vars

\* C22, the case of the claim: the program was closed with SABR mode on,
\* the settings file holds that, and the program has just started again
\* with the mode off.
C22_Witness ==
    /\ settings_sabr_active
    /\ ~sabr_mode_active
    /\ last_transition = "none"
    /\ afterQ = <<>>
    /\ \A k \in ProbeKinds : probes[k] = 0

\* C23: no detection reports SABR from the text of the console alone.
C23_NoDetectionFromLogText ==
    ~text_only

C25_OneProbePerKey ==
    \A t \in UrlThreads :
        Cardinality(ProbesInFlight(url_threads[t].cache_key)) <= 1

\* C26 as stated: a thread that found the extraction of its key in progress
\* has received the videos by the time it returns.
C26_SecondCallerServed ==
    \A t \in in_progress_seen : url_threads[t].pc = "done" => t \in served

\* C26, amended: a thread that finds the extraction of its key in progress
\* returns at once and hands nothing to add_videos_to_gui.
C26_SecondCallerDropped ==
    \A t \in in_progress_seen : url_threads[t].pc = "done" /\ t \notin served

\* a second thread has returned while the first is still in _extract_info
C26_Witness ==
    \E t \in in_progress_seen :
        /\ url_threads[t].pc = "done"
        /\ Cardinality(ProbesInFlight(url_threads[t].cache_key)) = 1

\* C27: at most five _extract_info calls are running at any time.
C27_AtMostFiveProbes ==
    Cardinality({t \in UrlThreads : url_threads[t].pc = "extract"}) <= 5

\* C28: the queue that on_closing writes to the settings file holds no
\* video with the status Downloading, and the queue of the next launch
\* holds none either.
C28_NoDownloadingSaved ==
    [][close_and_relaunch =>
         \A i \in QueueItems : /\ SavedStatus(status[i]) # "Downloading"
                                /\ status'[i] # "Downloading"]_vars

\* C29: when on_closing saves the settings and destroys the window, the
\* run has ended (is_downloading is off, no download_worker is left) and no
\* run_ytdlp thread of it is alive.
C29_ShutdownAfterStopped ==
    [][close_and_relaunch =>
         /\ ~is_downloading
         /\ workers = 0
         /\ alive = 0]_vars

\* C30: every change of a status that the callback of _reset_worker makes
\* is a change from Done, Failed, Skipped, QualityBlocked or AgeRestricted
\* to Pending; a video that is Pending or Downloading when the callback runs
\* is left as it is.
C30_ResetOnlyFromResetable ==
    [][(/\ update_video_status
        /\ IsResetEvent(Head(afterQ))
        /\ status' # status)
       => /\ status[Head(afterQ).item] \in Resetable
          /\ status'[Head(afterQ).item] = "Pending"]_vars

\* C31: the quality a video was added with is still recorded on it after
\* the queue was rewritten for SABR mode.  A video object has one 'quality'
\* entry and no other entry holds a quality; in this specification only an
\* activation writes it, so before_activation is the quality of the request.
C31_RequestedQualityKept ==
    last_transition = "activated" =>
        \A i \in QueueItems : quality[i] = before_activation[i]

C33_ReorderAtomicForWorker ==
    [][(worker_loop_test \/ worker_loop_read) =>
          /\ videos_to_move = NoItem
          /\ wpc' # "IndexError"]_vars

\* C34: when the run has ended without a stop, every video of the queue,
\* all of them Pending at the start, has been taken for a fetch exactly once.
C34_PendingFetchedOnce ==
    (/\ was_stopped = "no"
     /\ ~is_downloading
     /\ videos_to_move = NoItem)
    => \A i \in QueueItems : fetches[i] = 1

\* C35: move-to-top puts the selected videos at the front of the internal
\* queue in the order they had, followed by the other videos in the order
\* they had
C35_SelectedFirstInOrder ==
    [][move_to_top_selection =>
         download_queue' = selected_items \o Without(download_queue, selected_items)]_vars

\* C36: once a stopped run has settled (its worker has exited), the stop
\* event and the cancel flag of the current download are both clear
C36_NoCancellationLeft ==
    (was_stopped = "yes" /\ ~is_downloading /\ workers = 0 /\ tails = 0)
    => (~stop_event /\ ~cur_cancelled)

\* C37: the worker schedules status Downloading for an item only when the
\* item's status is Pending; an item that is QualityBlocked, AgeRestricted,
\* Done, Failed or Skipped is not fetched again
C37_FetchOnlyFromPending ==
    [][(worker_loop /\ wpc' = "prep") => status[wcur'] = "Pending"]_vars

\* C38: while SABR mode is active, every queued video whose status is neither
\* Done nor Failed has one of the qualities 360p, Audio-standard_mp3 and
\* Audio-high_m4a
C38_SafeQualityInSabrMode ==
    sabr_mode_active =>
        \A i \in QueueItems :
            status[i] \notin {"Done", "Failed"}
            => quality[i] \in {"360p", "Audio-standard_mp3", "Audio-high_m4a"}

\* C39: every video that add_videos_to_gui inserts into the queue has status
\* Pending afterwards, whether its video object came from the network or from
\* the cache
C39_InsertedPending ==
    [][add_videos_to_gui =>
         \A k \in 1..Len(download_queue') :
             k > Len(download_queue) => status'[download_queue'[k]] = "Pending"]_vars

\* C40: the cancellation monitor that was started for a fetch terminates,
\* whether the fetch ended in success, failure or cancellation
C40_MonitorTerminates == monitor ~> ~monitor

====
